---- MODULE Spec2Model ----
(***************************************************************************)
(* EpubTranslate: the translation worker pool.                             *)
(*                                                                         *)
(* TranslationWorker.run pulls chapter jobs off one shared queue.Queue;    *)
(* translate_chapter walks the chunks of a chapter in order;               *)
(* _attempt_translation is the provider rotation with per-provider         *)
(* retries; extract_json_from_response decides whether a streamed text is  *)
(* a usable response; ContextManager.update_* merge the deltas of a usable *)
(* response into the glossary.                                             *)
(*                                                                         *)
(* A streamed text is a sequence of tokens: the model keeps the shape the  *)
(* regular expressions and json.loads look at (fences, braces, members),   *)
(* not the characters.                                                     *)
(***************************************************************************)
EXTENDS Integers, Sequences, FiniteSets, TLC

\* ------------------------------------------------------------------ bounds
MaxWorkers == 2
MaxJobs == 2
MaxChunks == 2
MaxProviders == 2
MaxRetries == 2
MaxSpin == 3
MaxStarted == 4
MaxBatch == 2
MaxCalls == 2
MaxText == 5
MaxBudget == 4
MaxChunkText == 3
MaxGlossary == 2
MaxLongChunk == 6
MaxChapters == 3
MaxParts == 2

\* ------------------------------------------------------- response texts
\* The tokens of a streamed text.
\*   "fence"  ```            "lb"  {            "rb"  }
\*   "junk"   any text that is neither a brace nor a fence
\*   members of a JSON object:
\*   "ct"       "complete_translation": "<text>"
\*   "ct_null"  "complete_translation": null
\*   "chars"    "characters": [{"original": "A", "translated": "B", "gender": "male"}]
\*   "chars_bad" "characters": [{"original": 5, "translated": "B"}]
\*   "notes"    "notes": [{"action": "add", "key": "k", "note": "n"}]
\*   "notes_bad" "notes": [{"action": "add", "key": 5, "note": "n"}]
\*   "notes_del_bad" "notes": [{"action": "delete", "key": "k"},
\*                             {"action": "add", "key": 5, "note": "n"}]
Members == {"ct", "ct_null", "chars", "chars_bad", "notes", "notes_bad", "notes_del_bad"}
Tokens == Members \cup {"fence", "lb", "rb", "junk"}

None == "None"
Translation == "T"

\* json.loads on a token sequence: the members of the object, or a
\* JSONDecodeError when the tokens are not one flat object.
json_loads(s) ==
    IF /\ Len(s) >= 2
       /\ s[1] = "lb"
       /\ s[Len(s)] = "rb"
       /\ \A k \in 2..(Len(s) - 1) : s[k] \in Members
    THEN [JSONDecodeError |-> FALSE, obj |-> {s[k] : k \in 2..(Len(s) - 1)}]
    ELSE [JSONDecodeError |-> TRUE, obj |-> {}]

\* re.findall(r'```(?:json)?\s*(\{.*?\})\s*```', text, re.DOTALL): the
\* blocks, left to right, non-overlapping; from position `from` on.
\* A block opens at a fence directly followed by "{" and closes at the first
\* "}" directly followed by a fence.
RECURSIVE json_blocks(_, _)
json_blocks(s, from) ==
    LET opens == {a \in from..(Len(s) - 1) :
                     /\ s[a] = "fence" /\ s[a + 1] = "lb"
                     /\ \E b \in (a + 1)..(Len(s) - 1) :
                            s[b] = "rb" /\ s[b + 1] = "fence"}
    IN  IF opens = {} THEN << >>
        ELSE LET a == CHOOSE x \in opens : \A y \in opens : x <= y
                 b == CHOOSE x \in (a + 1)..(Len(s) - 1) :
                        /\ s[x] = "rb" /\ s[x + 1] = "fence"
                        /\ \A y \in (a + 1)..(x - 1) :
                               ~(s[y] = "rb" /\ s[y + 1] = "fence")
             IN  << SubSeq(s, a + 1, b) >> \o json_blocks(s, b + 2)

\* re.search(r'(\{.*\})', text, re.DOTALL): from the first "{" to the last
\* "}" after it; << >> when there is no match.
json_match(s) ==
    LET lbs == {a \in 1..Len(s) : s[a] = "lb"}
    IN  IF lbs = {} THEN << >>
        ELSE LET a == CHOOSE x \in lbs : \A y \in lbs : x <= y
                 rbs == {b \in (a + 1)..Len(s) : s[b] = "rb"}
             IN  IF rbs = {} THEN << >>
                 ELSE SubSeq(s, a, CHOOSE x \in rbs : \A y \in rbs : x >= y)

\* extract_json_from_response: [none |-> TRUE] for None, else the parsed
\* object (its set of members).
extract_json_from_response(response_text) ==
    LET blocks == json_blocks(response_text, 1)
        picked == IF blocks # << >> THEN blocks[Len(blocks)]
                  ELSE json_match(response_text)
    IN  IF picked = << >> \/ json_loads(picked).JSONDecodeError
        THEN [none |-> TRUE, obj |-> {}]
        ELSE [none |-> FALSE, obj |-> json_loads(picked).obj]

\* ------------------------------------------------------------- glossary
\* JSON values a delta can carry where the code expects a string.
Missing == "<missing>"
NotAString == "<not a string>"

\* str.strip() and str.lower() on the strings the model uses.
strip(s) == CASE s = " A " -> "A" [] s = " " -> "" [] OTHER -> s
lower(s) ==
    CASE s = "MALE" -> "male" [] s = "FEMALE" -> "female"
      [] s = "SPELL" -> "spell" [] OTHER -> s

VALID_GENDERS == {"male", "female", "not_clear"}
VALID_TERM_CATEGORIES ==
    {"spell", "weapon", "skill", "technique", "ability", "item", "artifact", "other"}

\* Position of key `orig` in an ordered collection (a sequence of entries),
\* 0 when absent.
IndexOf(coll, orig) ==
    IF \E k \in 1..Len(coll) : coll[k].original = orig
    THEN CHOOSE k \in 1..Len(coll) : coll[k].original = orig
    ELSE 0

\* Mutant of MergedSub: the proposed value always replaces the stored one.
MergedSub_LastWins(stored, proposed, dflt) == proposed

\* Mutant of MergedSub: the stored value is never replaced.
MergedSub_Frozen(stored, proposed, dflt) == stored

\* update_characters, lines 292-294, and update_terms, lines 365-367: the
\* stored sub-field changes only from the fallback to a specific value.
MergedSub(stored, proposed, dflt) ==
    IF stored = dflt /\ proposed # dflt THEN proposed ELSE stored

\* Mutant of Validated: the given value is stored as it is.
Validated_Unchecked(given, valid, dflt) == given

\* update_characters, lines 281-282, and update_terms, lines 354-355
Validated(given, valid, dflt) == IF given \in valid THEN given ELSE dflt

\* Mutant of MergeEntry: an update moves the entry to the end of the
\* collection.
MergeEntry_MovesToEnd(coll, e, valid, dflt) ==
    IF e.original \in {Missing, NotAString} \/ e.translated \in {Missing, NotAString}
       \/ e.sub = NotAString \/ strip(e.original) = "" \/ strip(e.translated) = ""
    THEN [coll |-> coll, raised |-> FALSE, touched |-> FALSE]
    ELSE LET orig == strip(e.original)
             given == lower(strip(IF e.sub = Missing THEN dflt ELSE e.sub))
             others == SelectSeq(coll, LAMBDA c : c.original # orig)
         IN  [coll |-> Append(others, [original |-> orig,
                                       translated |-> strip(e.translated),
                                       sub |-> Validated(given, valid, dflt)]),
              raised |-> FALSE, touched |-> TRUE]

\* One iteration of the loop of update_characters / update_terms on entry e;
\* `sub` is the sub-field ("gender" or "category"), `valid` its values and
\* `dflt` its fallback. Returns the collection, and whether the iteration
\* raised (a .strip() on a value that is no string, or the read of the
\* stored sub-field, lines 293 and 366, on a stored record that has none).
MergeEntry(coll, e, valid, dflt) ==
    IF e.original = Missing \/ e.translated = Missing
    THEN [coll |-> coll, raised |-> FALSE, touched |-> FALSE]
    ELSE IF e.original = NotAString \/ e.translated = NotAString \/ e.sub = NotAString
    THEN [coll |-> coll, raised |-> TRUE, touched |-> FALSE]
    ELSE LET orig == strip(e.original)
             trans == strip(e.translated)
             given == lower(strip(IF e.sub = Missing THEN dflt ELSE e.sub))
             sub == Validated(given, valid, dflt)
             at == IndexOf(coll, orig)
         IN  IF orig = "" \/ trans = ""
             THEN [coll |-> coll, raised |-> FALSE, touched |-> FALSE]
             ELSE IF at = 0
             THEN [coll |-> Append(coll, [original |-> orig, translated |-> trans,
                                          sub |-> sub]),
                   raised |-> FALSE, touched |-> TRUE]
             ELSE IF coll[at].sub = Missing
             THEN [coll |-> [coll EXCEPT ![at].translated = trans],
                   raised |-> TRUE, touched |-> FALSE]
             ELSE [coll |-> [coll EXCEPT ![at].translated = trans,
                                         ![at].sub = MergedSub(coll[at].sub, sub, dflt)],
                   raised |-> FALSE, touched |-> TRUE]

RECURSIVE MergeList(_, _, _, _)
MergeList(coll, data, valid, dflt) ==
    IF data = << >> THEN [coll |-> coll, raised |-> FALSE, touched |-> FALSE]
    ELSE LET one == MergeEntry(coll, Head(data), valid, dflt)
             rest == MergeList(one.coll, Tail(data), valid, dflt)
         IN  IF one.raised THEN one
             ELSE [rest EXCEPT !.touched = @ \/ one.touched]

\* Mutant of update_characters: a stored translation is kept, as for a place.
update_characters_KeepsTranslated(context_mode, characters, characters_data) ==
    LET r == IF ~context_mode \/ characters_data = << >>
             THEN [coll |-> characters, raised |-> FALSE, touched |-> FALSE]
             ELSE MergeList(characters, characters_data, VALID_GENDERS, "not_clear")
    IN  [r EXCEPT !.coll = [k \in 1..Len(r.coll) |->
                               IF k <= Len(characters)
                               THEN [r.coll[k] EXCEPT !.translated = characters[k].translated]
                               ELSE r.coll[k]]]

\* ContextManager.update_characters
update_characters(context_mode, characters, characters_data) ==
    IF ~context_mode \/ characters_data = << >>
    THEN [coll |-> characters, raised |-> FALSE, touched |-> FALSE]
    ELSE MergeList(characters, characters_data, VALID_GENDERS, "not_clear")

\* Mutant of ApplyNote: a delete removes nothing.
ApplyNote_KeepsDeleted(notes, n) ==
    LET action == lower(n.action)
        key == strip(n.key)
        at == IndexOf(notes, key)
        note == strip(n.note)
    IN  IF key = "" \/ action \notin {"add", "update"} \/ note = "" THEN notes
        ELSE IF at = 0
        THEN Append(notes, [original |-> key, note |-> note])
        ELSE [notes EXCEPT ![at].note = note]

\* update_notes, lines 390-415: one action of the list
ApplyNote(notes, n) ==
    LET action == lower(n.action)
        key == strip(n.key)
        at == IndexOf(notes, key)
        note == strip(n.note)
    IN  IF key = "" THEN notes
        ELSE IF action \in {"add", "update"}
        THEN IF note = "" THEN notes
             ELSE IF at = 0
             THEN Append(notes, [original |-> key, note |-> note])
             ELSE [notes EXCEPT ![at].note = note]
        ELSE IF action \in {"delete", "remove"} /\ at # 0
        THEN SubSeq(notes, 1, at - 1) \o SubSeq(notes, at + 1, Len(notes))
        ELSE notes

\* ContextManager.update_notes: add / update / delete by key, in list order.
RECURSIVE NotesList(_, _)
NotesList(notes, data) ==
    IF data = << >> THEN notes
    ELSE NotesList(ApplyNote(notes, Head(data)), Tail(data))

\* update_notes, lines 392, 393 and 399: .lower() or .strip() on a value that
\* is no string raises.
NoteRaises(n) ==
    \/ n.action = NotAString
    \/ n.key = NotAString
    \/ /\ strip(n.key) # ""
       /\ lower(n.action) \in {"add", "update"}
       /\ n.note = NotAString

\* The actions in front of the first one that raises.
NotesBefore(data) ==
    LET bad == {i \in 1..Len(data) : NoteRaises(data[i])}
    IN  IF bad = {} THEN data
        ELSE SubSeq(data, 1, (CHOOSE i \in bad : \A j \in bad : i <= j) - 1)

\* Whether the call leaves update_notes by an exception.
update_notes_raises(notes_mode, notes_data) ==
    notes_mode /\ \E i \in 1..Len(notes_data) : NoteRaises(notes_data[i])

\* The notes after the call, whether it returned or raised.
update_notes(notes_mode, notes, notes_data) ==
    IF ~notes_mode \/ notes_data = << >> THEN notes
    ELSE NotesList(notes, NotesBefore(notes_data))

\* ------------------------------------------------------- glossary store
\* ContextManager.update_terms: the loop of update_characters with the
\* category in the place of the gender.
update_terms(context_mode, terms, terms_data) ==
    IF ~context_mode \/ terms_data = << >>
    THEN [coll |-> terms, raised |-> FALSE, touched |-> FALSE]
    ELSE MergeList(terms, terms_data, VALID_TERM_CATEGORIES, "other")

\* Mutant of MayAddPlace: a place is stored whether or not its key exists.
MayAddPlace_Always(places, orig, trans) == orig # "" /\ trans # ""

\* update_places, line 322: if orig and trans and orig not in self.places
MayAddPlace(places, orig, trans) ==
    orig # "" /\ trans # "" /\ IndexOf(places, orig) = 0

\* update_places, lines 311-324: the loop over the proposed places
RECURSIVE PlacesList(_, _)
PlacesList(places, data) ==
    IF data = << >> THEN [coll |-> places, raised |-> FALSE, touched |-> FALSE]
    ELSE LET e == Head(data)
         IN  IF e.original = Missing \/ e.translated = Missing
             THEN PlacesList(places, Tail(data))
             ELSE IF e.original = NotAString \/ e.translated = NotAString
             THEN [coll |-> places, raised |-> TRUE, touched |-> FALSE]
             ELSE LET orig == strip(e.original)
                      trans == strip(e.translated)
                      add == MayAddPlace(places, orig, trans)
                      rest == PlacesList(IF add
                                         THEN Append(places, [original |-> orig,
                                                              translated |-> trans])
                                         ELSE places,
                                         Tail(data))
                  IN  [rest EXCEPT !.touched = @ \/ add]

\* ContextManager.update_places, without the save
update_places(context_mode, places, places_data) ==
    IF ~context_mode \/ places_data = << >>
    THEN [coll |-> places, raised |-> FALSE, touched |-> FALSE]
    ELSE PlacesList(places, places_data)

\* A file of the context folder. kind is what reading it meets:
\*   "missing"     there is no such file
\*   "object"      a JSON object; coll holds its members in the file's order
\*   "array"       valid JSON that is no object (an array of numbers)
\*   "truncated"   no valid JSON: what a failed json.dump leaves behind
\*   "unreadable"  open(..., 'r') raises
\* A member of a characters or terms file is a record (a record without a
\* key has Missing there) or, in a legacy file, a bare string: translated is
\* that string and sub is BareString.
BareString == "<bare string>"
FileKinds == {"missing", "object", "array", "truncated", "unreadable"}
EmptyFile == [kind |-> "missing", coll |-> << >>]

\* What open(..., 'w') and json.dump can do: write the file, fail before the
\* file is opened, or fail after it was truncated.
SaveOutcomes == {"written", "open failed", "dump failed"}

\* save_characters, save_places, save_terms, save_notes: the file after the
\* call.
save_file(mode, file, coll, io) ==
    IF ~mode \/ io = "open failed" THEN file
    ELSE IF io = "written" THEN [kind |-> "object", coll |-> coll]
    ELSE [kind |-> "truncated", coll |-> << >>]

\* load_places, load_notes: OrderedDict(data) of a JSON object, and an empty
\* OrderedDict for no file and for every exception.
load_file(mode, file) == IF ~mode \/ file.kind # "object" THEN << >> ELSE file.coll

\* load_characters, lines 80-84, and load_terms, lines 134-138: a member
\* that is a dict is taken as it is, anything else becomes a record with
\* the default sub-field.
Normalized(member, dflt) ==
    IF member.sub = BareString THEN [member EXCEPT !.sub = dflt] ELSE member

\* load_characters, load_terms
load_records(mode, file, dflt) ==
    IF ~mode \/ file.kind # "object" THEN << >>
    ELSE [k \in 1..Len(file.coll) |-> Normalized(file.coll[k], dflt)]

\* ContextManager.__init__: the modes are stored and the collections loaded.
LoadedStore(context_mode, notes_mode, character_file, place_file, terms_file, notes_file) ==
    [ context_mode |-> context_mode,
      notes_mode |-> notes_mode,
      characters |-> load_records(context_mode, character_file, "not_clear"),
      places |-> load_file(context_mode, place_file),
      terms |-> load_records(context_mode, terms_file, "other"),
      notes |-> load_file(notes_mode, notes_file),
      character_file |-> character_file,
      place_file |-> place_file,
      terms_file |-> terms_file,
      notes_file |-> notes_file,
      calls |-> 0,
      last |-> [op |-> "__init__", raised |-> FALSE, io |-> "none"] ]

\* A ContextManager over an empty context folder.
NewStore(context_mode, notes_mode) ==
    LoadedStore(context_mode, notes_mode, EmptyFile, EmptyFile, EmptyFile, EmptyFile)

\* Mutant of AfterUpdateCharacters: a save that fails undoes the merge.
AfterUpdateCharacters_RollsBack(st, data, io) ==
    LET r == update_characters(st.context_mode, st.characters, data)
        save == r.touched /\ ~r.raised
        undone == save /\ st.context_mode /\ io # "written"
    IN  [st EXCEPT !.characters = IF undone THEN @ ELSE r.coll,
                   !.character_file =
                       IF save THEN save_file(st.context_mode, @, r.coll, io) ELSE @,
                   !.calls = @ + 1,
                   !.last = [op |-> "update_characters", raised |-> r.raised,
                             io |-> IF save THEN io ELSE "none"]]

\* update_characters, lines 263-299: the merge, and the save when an entry
\* was added or updated; an exception leaves before the save.
AfterUpdateCharacters(st, data, io) ==
    LET r == update_characters(st.context_mode, st.characters, data)
        save == r.touched /\ ~r.raised
    IN  [st EXCEPT !.characters = r.coll,
                   !.character_file =
                       IF save THEN save_file(st.context_mode, @, r.coll, io) ELSE @,
                   !.calls = @ + 1,
                   !.last = [op |-> "update_characters", raised |-> r.raised,
                             io |-> IF save THEN io ELSE "none"]]

\* update_places, lines 307-328
AfterUpdatePlaces(st, data, io) ==
    LET r == update_places(st.context_mode, st.places, data)
        save == r.touched /\ ~r.raised
    IN  [st EXCEPT !.places = r.coll,
                   !.place_file =
                       IF save THEN save_file(st.context_mode, @, r.coll, io) ELSE @,
                   !.calls = @ + 1,
                   !.last = [op |-> "update_places", raised |-> r.raised,
                             io |-> IF save THEN io ELSE "none"]]

\* update_terms, lines 336-372
AfterUpdateTerms(st, data, io) ==
    LET r == update_terms(st.context_mode, st.terms, data)
        save == r.touched /\ ~r.raised
    IN  [st EXCEPT !.terms = r.coll,
                   !.terms_file =
                       IF save THEN save_file(st.context_mode, @, r.coll, io) ELSE @,
                   !.calls = @ + 1,
                   !.last = [op |-> "update_terms", raised |-> r.raised,
                             io |-> IF save THEN io ELSE "none"]]

\* update_notes, lines 386-417: the actions, and the save at its end, which
\* an exception of an action leaves out.
AfterUpdateNotes(st, data, io) ==
    LET notes == update_notes(st.notes_mode, st.notes, data)
        raised == update_notes_raises(st.notes_mode, data)
        save == st.notes_mode /\ data # << >> /\ ~raised
    IN  [st EXCEPT !.notes = notes,
                   !.notes_file =
                       IF save THEN save_file(st.notes_mode, @, notes, io) ELSE @,
                   !.calls = @ + 1,
                   !.last = [op |-> "update_notes", raised |-> raised,
                             io |-> IF save THEN io ELSE "none"]]

\* The prompts. A prompt is the text the method returns, kept as its lines:
\* the heading, then one line per entry with the values the f-string joins;
\* << >> is the empty string.
\* get_character_prompt, lines 425-439
get_character_prompt(cm) ==
    IF ~cm.context_mode \/ cm.characters = << >> THEN << >>
    ELSE << "Existing Character Translations:" >>
         \o [k \in 1..Len(cm.characters) |->
                << cm.characters[k].original, cm.characters[k].translated,
                   cm.characters[k].sub >>]

\* get_place_prompt, lines 447-451
get_place_prompt(cm) ==
    IF ~cm.context_mode \/ cm.places = << >> THEN << >>
    ELSE << "Existing Place Translations:" >>
         \o [k \in 1..Len(cm.places) |->
                << cm.places[k].original, cm.places[k].translated >>]

\* get_terms_prompt, lines 459-473
get_terms_prompt(cm) ==
    IF ~cm.context_mode \/ cm.terms = << >> THEN << >>
    ELSE << "Existing Specialized Term Translations:" >>
         \o [k \in 1..Len(cm.terms) |->
                << cm.terms[k].original, cm.terms[k].translated, cm.terms[k].sub >>]

\* get_notes_prompt, lines 481-485
get_notes_prompt(cm) ==
    IF ~cm.notes_mode \/ cm.notes = << >> THEN << >>
    ELSE << "Important Translation Notes:" >>
         \o [k \in 1..Len(cm.notes) |->
                << cm.notes[k].original, cm.notes[k].note >>]

\* get_character_prompt, lines 431-432, and get_terms_prompt, lines 465-466:
\* char_data['translated'] and char_data['gender'] on a record without the
\* key raise KeyError.
prompt_raises(context_mode, coll) ==
    /\ context_mode
    /\ \E k \in 1..Len(coll) : coll[k].translated = Missing \/ coll[k].sub = Missing

\* The deltas the members of a response carry.
characters_of(obj) ==
    IF "chars_bad" \in obj
    THEN << [original |-> NotAString, translated |-> "B", sub |-> Missing] >>
    ELSE << [original |-> "A", translated |-> "B", sub |-> "male"] >>

notes_of(obj) ==
    IF "notes_bad" \in obj
    THEN << [action |-> "add", key |-> NotAString, note |-> "n"] >>
    ELSE IF "notes_del_bad" \in obj
    THEN << [action |-> "delete", key |-> "k", note |-> Missing],
            [action |-> "add", key |-> NotAString, note |-> "n"] >>
    ELSE << [action |-> "add", key |-> "k", note |-> "n"] >>

\* The fields of a ContextManager that live in memory.
Memory(st) ==
    [ context_mode |-> st.context_mode,
      notes_mode |-> st.notes_mode,
      characters |-> st.characters,
      places |-> st.places,
      terms |-> st.terms,
      notes |-> st.notes ]

\* A worker's ContextManager cm with the files of the context folder, which
\* every ContextManager of the session reads and writes.
OverFiles(cm, st) ==
    [st EXCEPT !.context_mode = cm.context_mode,
               !.notes_mode = cm.notes_mode,
               !.characters = cm.characters,
               !.places = cm.places,
               !.terms = cm.terms,
               !.notes = cm.notes]

\* TranslationWorker._attempt_translation, lines 826-846: the merge of the
\* deltas of a usable response into the worker's ContextManager st, in the
\* code's order (characters, then notes), each with its save (outcomes ioc
\* and ion); an exception ends it where it is raised, with what was merged
\* before it kept.
MergeDeltas(context_mode, notes_mode, st, obj, ioc, ion) ==
    LET with_chars == context_mode /\ ({"chars", "chars_bad"} \cap obj) # {}
        chars == IF with_chars
                 THEN AfterUpdateCharacters(st, characters_of(obj), ioc)
                 ELSE st
        chars_raised == with_chars /\ chars.last.raised
        with_notes == ~chars_raised /\ notes_mode
                      /\ ({"notes", "notes_bad", "notes_del_bad"} \cap obj) # {}
        notes == IF with_notes
                 THEN AfterUpdateNotes(chars, notes_of(obj), ion)
                 ELSE chars
    IN  [cm |-> [notes EXCEPT !.calls = st.calls],
         raised |-> chars_raised \/ (with_notes /\ notes.last.raised)]

\* Mutant of StructurallyValid: any parsed object passes.
StructurallyValid_AnyObject(json_data) == ~json_data.none

\* line 811: if json_data and 'complete_translation' in json_data
StructurallyValid(json_data) ==
    /\ ~json_data.none
    /\ json_data.obj # {}
    /\ ({"ct", "ct_null"} \cap json_data.obj) # {}

\* json_data['complete_translation']
complete_translation(obj) == IF "ct" \in obj THEN Translation ELSE None

\* ------------------------------------------------------------- chunker
\* A text is a sequence of characters: a letter, a blank or a line break.
Characters == {"w", "sp", "nl"}
Texts == UNION { [1..n -> Characters] : n \in 0..MaxText }

\* num_tokens_from_string, lines 7-10. The encoding is tiktoken's and no part
\* of the repository; here every character is one token.
num_tokens_from_string(string) == Len(string)

\* str.split('\n')
RECURSIVE split(_)
split(text) ==
    IF \A k \in 1..Len(text) : text[k] # "nl" THEN << text >>
    ELSE LET at == CHOOSE k \in 1..Len(text) :
                     text[k] = "nl" /\ \A j \in 1..(k - 1) : text[j] # "nl"
         IN  << SubSeq(text, 1, at - 1) >> \o split(SubSeq(text, at + 1, Len(text)))

\* str.strip(): without the blanks and line breaks at both ends
text_strip(text) ==
    LET letters == { k \in 1..Len(text) : text[k] = "w" }
    IN  IF letters = {} THEN << >>
        ELSE SubSeq(text, CHOOSE k \in letters : \A j \in letters : k <= j,
                          CHOOSE k \in letters : \A j \in letters : j <= k)

\* Mutant of Overflows: the budget is never exceeded.
Overflows_Never(chunk_tokens, max_tokens) == FALSE

\* split_chapter, line 21
Overflows(chunk_tokens, max_tokens) == chunk_tokens > max_tokens

\* Mutant of AfterOverflow: the line that did not fit is dropped.
AfterOverflow_Empty(line) == << >>

\* split_chapter, line 23: the chunk that starts with the line that did not
\* fit.
AfterOverflow(line) == line \o << "nl" >>

\* split_chapter at line 19, before the first line. `members` and
\* `current_lines` are history: the lines put into each chunk.
NewSplit(chapter, max_tokens) ==
    [ pc |-> "for_line",
      chapter |-> chapter,
      max_tokens |-> max_tokens,
      lines |-> split(chapter),
      chunks |-> << >>,
      current_chunk |-> << >>,
      members |-> << >>,
      current_lines |-> << >> ]

\* No call of split_chapter.
NoSplit == [NewSplit(<< >>, 1) EXCEPT !.pc = "none", !.lines = << >>]

\* split_chapter, lines 19-25: one iteration of the loop
for_line(c) ==
    LET line == Head(c.lines)
        chunk_tokens == num_tokens_from_string(c.current_chunk \o line \o << "nl" >>)
    IN  IF Overflows(chunk_tokens, c.max_tokens)
        THEN [c EXCEPT !.lines = Tail(@),
                       !.chunks = Append(@, text_strip(c.current_chunk)),
                       !.members = Append(@, c.current_lines),
                       !.current_chunk = AfterOverflow(line),
                       !.current_lines = << line >>]
        ELSE [c EXCEPT !.lines = Tail(@),
                       !.current_chunk = @ \o line \o << "nl" >>,
                       !.current_lines = Append(@, line)]

\* split_chapter, lines 27-30
after_loop(c) ==
    IF c.current_chunk # << >>
    THEN [c EXCEPT !.pc = "returned",
                   !.chunks = Append(@, text_strip(c.current_chunk)),
                   !.members = Append(@, c.current_lines)]
    ELSE [c EXCEPT !.pc = "returned"]

\* ----------------------------------------------------- relevance filter
\* The characters of a glossary string and of a chunk: two katakana, the two
\* hiragana of the same sounds, a kanji, a small and a capital Latin letter.
Letters == {"ka", "ki", "KA", "KI", "kanji", "l", "L"}
ChunkTexts == UNION { [1..n -> Letters] : n \in 0..MaxChunkText }

\* Longer chunks, of kana only.
KanaChunks ==
    UNION { [1..n -> {"KA", "ka"}] : n \in (MaxChunkText + 1)..MaxLongChunk }

\* str.lower() of one character
lower_char(c) == IF c = "L" THEN "l" ELSE c

\* _katakana_to_hiragana, lines 28-36, on one character ("KA" and "KI" are
\* the katakana)
katakana_to_hiragana(c) == CASE c = "KA" -> "ka" [] c = "KI" -> "ki" [] OTHER -> c

\* _normalize_japanese, lines 38-39
normalize_japanese(text) ==
    [k \in 1..Len(text) |-> katakana_to_hiragana(lower_char(text[k]))]

\* _is_cjk_char, lines 41-49, and _has_cjk, lines 51-52
has_cjk(text) == \E k \in 1..Len(text) : text[k] \notin {"l", "L"}

\* `part in text` of Python for strings
Contains(text, part) ==
    \E k \in 0..(Len(text) - Len(part)) : SubSeq(text, k + 1, k + Len(part)) = part

\* Mutant of CeilSevenTenths: rounded down.
CeilSevenTenths_Floor(n) == (7 * n) \div 10

\* math.ceil(len(term) * 0.7)
CeilSevenTenths(n) == (7 * n + 9) \div 10

Max2(a, b) == IF a >= b THEN a ELSE b

\* Lines 72-79: the partial strings of a term from a start and a length on,
\* in the order of the two loops; the first that is found in the chunk.
RECURSIVE FirstPartial(_, _, _, _, _, _)
FirstPartial(term, chunk, chunk_normalized, length, start, min_partial_len) ==
    IF length < min_partial_len THEN None
    ELSE IF start > Len(term) - length
    THEN FirstPartial(term, chunk, chunk_normalized, length - 1, 0, min_partial_len)
    ELSE LET partial == SubSeq(term, start + 1, start + length)
         IN  IF Contains(chunk, partial) THEN << partial, "partial" >>
             ELSE IF Contains(chunk_normalized, normalize_japanese(partial))
             THEN << partial, "partial_norm" >>
             ELSE FirstPartial(term, chunk, chunk_normalized, length, start + 1,
                               min_partial_len)

\* Lines 81-100: the halves of a term of four characters or more
LooseMatch(term, chunk, chunk_normalized, allow_loose_partial, prefix_only) ==
    LET half_len == Len(term) \div 2
        first_half == SubSeq(term, 1, half_len)
        second_half == SubSeq(term, half_len + 1, Len(term))
        min_norm_len == IF prefix_only THEN 3 ELSE 2
    IN  IF ~((allow_loose_partial \/ prefix_only) /\ Len(term) >= 4) THEN None
        ELSE IF Len(first_half) >= 2 /\ Contains(chunk, first_half)
        THEN << first_half, IF prefix_only THEN "prefix" ELSE "name_part" >>
        ELSE IF /\ Len(first_half) >= min_norm_len
                /\ Contains(chunk_normalized, normalize_japanese(first_half))
        THEN << first_half, IF prefix_only THEN "prefix_norm" ELSE "name_part_norm" >>
        ELSE IF ~(allow_loose_partial /\ ~prefix_only) THEN None
        ELSE IF Len(second_half) >= 2 /\ Contains(chunk, second_half)
        THEN << second_half, "name_part" >>
        ELSE IF /\ Len(second_half) >= 2
                /\ Contains(chunk_normalized, normalize_japanese(second_half))
        THEN << second_half, "name_part_norm" >>
        ELSE None

\* Mutant of find_match_in_chunk: the partial strings are tried first.
find_match_in_chunk_PartialFirst(term, chunk, chunk_normalized, allow_loose_partial, prefix_only) ==
    LET partial == FirstPartial(term, chunk, chunk_normalized, Len(term) - 1, 0, 1)
    IN  IF partial # None THEN partial
        ELSE IF Contains(chunk, term) THEN << term, "exact" >>
        ELSE None

\* ContextFilter._find_match_in_chunk, lines 54-102: None, or the text that
\* was found and the kind of the match
find_match_in_chunk(term, chunk, chunk_normalized, allow_loose_partial, prefix_only) ==
    IF Contains(chunk, term) THEN << term, "exact" >>
    ELSE IF Contains(chunk_normalized, normalize_japanese(term))
    THEN << term, "normalized" >>
    ELSE IF ~(has_cjk(term) /\ Len(term) >= 2) THEN None
    ELSE LET partial == FirstPartial(term, chunk, chunk_normalized, Len(term) - 1, 0,
                                     Max2(2, CeilSevenTenths(Len(term))))
         IN  IF partial # None THEN partial
             ELSE LooseMatch(term, chunk, chunk_normalized, allow_loose_partial,
                             prefix_only)

\* The three filters differ in the options they pass (lines 117, 146, 172).
FilterKinds == {"characters", "places", "terms"}

\* Mutant of allow_loose_partial_of: every filter compares the halves.
allow_loose_partial_of_Always(kind) == TRUE

allow_loose_partial_of(kind) == kind = "characters"
prefix_only_of(kind) == kind = "terms"

\* filter_characters / filter_places / filter_terms before the loop (lines
\* 109-114). `entries` are the items still to visit.
NewFilter(kind, chunk, collection) ==
    [ pc |-> IF collection = << >> THEN "returned" ELSE "for_entry",
      kind |-> kind,
      chunk |-> chunk,
      chunk_normalized |-> normalize_japanese(chunk),
      collection |-> collection,
      entries |-> collection,
      relevant |-> << >>,
      match_details |-> << >> ]

\* No call of a filter.
NoFilter == [NewFilter("characters", << >>, << >>) EXCEPT !.pc = "none"]

\* One iteration of the loop of a filter (lines 116-128, 145-154, 171-183)
for_entry(f) ==
    LET e == Head(f.entries)
        loose == allow_loose_partial_of(f.kind)
        prefix == prefix_only_of(f.kind)
        by_orig == find_match_in_chunk(e.original, f.chunk, f.chunk_normalized,
                                       loose, prefix)
        match == IF by_orig = None /\ e.translated # << >>
                 THEN find_match_in_chunk(e.translated, f.chunk, f.chunk_normalized,
                                          loose, prefix)
                 ELSE by_orig
    IN  IF match # None
        THEN [f EXCEPT !.entries = Tail(@),
                       !.relevant = Append(@, e),
                       !.match_details =
                           Append(@, << e.original, e.translated, match[1], match[2] >>)]
        ELSE [f EXCEPT !.entries = Tail(@)]

\* --------------------------------------------------------------- state
VARIABLES
    cfg,            \* the options the workers were constructed with
    responses,      \* the texts the providers of this run may stream
    chapter_queue,  \* the shared queue.Queue of (chapter_number, chapter)
    worker,         \* per worker: its fields and the locals of its frames
    xhtml,          \* xhtml_folder: chapter number -> content of <n>.xhtml
    chapter_completed,  \* the chapter_completed signals emitted, in order
    dequeued,       \* history: (job, worker) for every successful get_nowait
    outcome,        \* history: job -> how translate_chapter ended for it
    window,         \* the main window: its controls and its running workers
    store,          \* a ContextManager with the files it loads and saves
    chunker,        \* a call of split_chapter: its arguments and locals
    relevance,      \* a call of a filter of ContextFilter: arguments and locals
    toc             \* a call of TocTranslationWorker.translate_batch

vars == << cfg, responses, chapter_queue, worker, xhtml, chapter_completed,
           dequeued, outcome, window, store, chunker,
           relevance, toc >>

\* An API key that is not empty.
ApiKey == "sk"

NoFile == << "no file" >>
NoJob == [id |-> 0, chapter_number |-> 0, chunks |-> 0, convertible |-> TRUE]

\* lines 83-87: the default provider order of the constructor
DefaultProviders ==
    << "targon/fp8", "lambda/fp8", "gmicloud/fp8", "baseten/fp8",
       "parasail/fp8", "fireworks", "chutes/fp8" >>

\* The provider identifiers a user can select, in the selected order.
ProviderNames == << "p1", "p2", "p3", "p4" >>

\* TranslationWorker.__init__, lines 83-87
providers_of(providers_list) ==
    IF Len(providers_list) > 0 THEN providers_list ELSE DefaultProviders

\* _attempt_translation, lines 678-683
provider_list == IF cfg.use_custom THEN << None >> ELSE cfg.providers

Workers == DOMAIN worker

\* The texts a provider may stream.
ValidPlain == << "lb", "ct", "rb" >>
ValidFencedChars == << "fence", "lb", "chars", "ct", "rb", "fence" >>
ValidNotesTrailing == << "lb", "notes", "ct", "rb", "junk" >>
ValidBadChars == << "lb", "chars_bad", "ct", "rb" >>
ValidBadNotes == << "lb", "notes_bad", "ct", "rb" >>
NullTranslation == << "lb", "ct_null", "rb" >>
NoTranslation == << "lb", "chars", "rb" >>
NotJson == << "junk" >>
ValidDeleteBadNotes == << "lb", "notes_del_bad", "ct", "rb" >>
BrokenFence == << "fence", "lb", "junk", "rb", "fence", "lb", "ct", "rb" >>
AllResponses ==
    { ValidPlain, ValidFencedChars, ValidNotesTrailing, ValidBadChars,
      ValidBadNotes, NullTranslation, NoTranslation, NotJson, BrokenFence, << >> }

\* TranslationWorker.__init__: the fields of a new worker.
NewWorker ==
    [ is_running |-> TRUE,
      pc |-> "run",
      job |-> NoJob,
      i |-> 0,
      translated_chunks |-> << >>,
      all_chunks_successful |-> TRUE,
      provider_index |-> 0,
      retry_attempt |-> 0,
      stream |-> << >>,
      current_response |-> << >>,
      translated_chunk |-> None,
      context_manager |-> Memory(store),
      base_messages |-> << >>,
      current_chapter_chunks |-> << >>,
      current_chapter_translations |-> << >>,
      previous_parts |-> << >>,
      finished |-> 0,
      \* history of the rotation of the current chunk
      attempts |-> << >>,
      success |-> FALSE,
      interrupted |-> FALSE,
      stream_error |-> FALSE ]

\* The locals of translate_chapter and of the frames below it are gone when
\* it returns or raises.
Returned(wk) ==
    [wk EXCEPT !.job = NoJob, !.i = 0, !.translated_chunks = << >>,
               !.all_chunks_successful = TRUE, !.provider_index = 0,
               !.retry_attempt = 0, !.stream = << >>, !.current_response = << >>,
               !.translated_chunk = None, !.attempts = << >>, !.success = FALSE,
               !.interrupted = FALSE, !.stream_error = FALSE,
               !.base_messages = << >>, !.current_chapter_chunks = << >>,
               !.current_chapter_translations = << >>, !.previous_parts = << >>]

\* start_translation, lines 1188-1191: the jobs put on the queue, chapter
\* numbers start..end of a range selection.
Jobs(n, max_chunks) ==
    { q \in [1..n -> [id : 1..n, chapter_number : 1..n, chunks : 1..max_chunks,
                      convertible : BOOLEAN]] :
        \A k \in 1..n : q[k].id = k /\ q[k].chapter_number = k }

\* The options start_translation hands to the constructor: with a custom
\* endpoint no providers are selected (line 1139), so the constructor's
\* default order is stored and never used.
Configs ==
    { c \in [ use_custom : BOOLEAN,
              providers : {providers_of(SubSeq(ProviderNames, 1, n)) :
                              n \in 0..MaxProviders},
              retries_per_provider : 1..MaxRetries,
              context_mode : BOOLEAN,
              notes_mode : BOOLEAN,
              api_key : {ApiKey},
              send_previous_chunks : {FALSE} ] :
        c.use_custom <=> c.providers = DefaultProviders }

\* ------------------------------------------------------------- actions
Set(w, rec) == worker' = [worker EXCEPT ![w] = rec]

\* run, line 119: while self._is_running and not self.chapter_queue.empty()
RunLoop(w) ==
    /\ worker[w].pc = "run"
    /\ Set(w, [worker[w] EXCEPT
                 !.pc = IF worker[w].is_running /\ chapter_queue # << >>
                        THEN "get_nowait" ELSE "finished_emit"])
    /\ UNCHANGED << toc, chunker, relevance, window, store, cfg, responses, chapter_queue, xhtml, chapter_completed, dequeued, outcome >>

\* Mutant of QueueAfterGet: the head is read and stays on the queue.
QueueAfterGet_Peek(q) == q

\* What get_nowait does to the queue: the head leaves it.
QueueAfterGet(q) == Tail(q)

\* Mutant of OnEmpty: a blocking get that waits for a job.
OnEmpty_Blocks == "get_nowait"

\* run, lines 122-123: except queue.Empty: break
OnEmpty == "finished_emit"

\* run, lines 120-123: get_nowait, or queue.Empty and break
GetNowait(w) ==
    /\ worker[w].pc = "get_nowait"
    /\ IF chapter_queue = << >>
       THEN /\ Set(w, [worker[w] EXCEPT !.pc = OnEmpty])
            /\ UNCHANGED << chapter_queue, dequeued >>
       ELSE /\ Set(w, [worker[w] EXCEPT !.pc = "translate_chapter",
                                        !.job = Head(chapter_queue)])
            /\ chapter_queue' = QueueAfterGet(chapter_queue)
            /\ dequeued' = Append(dequeued, [job |-> Head(chapter_queue), worker |-> w])
    /\ UNCHANGED << toc, chunker, relevance, window, store, cfg, responses, xhtml, chapter_completed, outcome >>

\* Where run continues when translate_chapter raises: the try of run wraps
\* the whole loop, so the handler (lines 129-131) emits finished and run ends.
AfterChapterException == "done"

\* translate_chapter, lines 260-281: conversion and chunking. A conversion
\* that raises leaves translate_chapter and reaches the handler of run.
TranslateChapter(w) ==
    /\ worker[w].pc = "translate_chapter"
    /\ IF worker[w].job.convertible
       THEN /\ Set(w, [worker[w] EXCEPT !.pc = "for_chunk",
                                        !.i = 1,
                                        !.translated_chunks = << >>,
                                        !.all_chunks_successful = TRUE,
                                        !.current_chapter_chunks = << >>,
                                        !.current_chapter_translations = << >>])
            /\ UNCHANGED outcome
       ELSE /\ Set(w, [Returned(worker[w]) EXCEPT
                         !.pc = AfterChapterException,
                         !.finished = IF AfterChapterException = "done"
                                      THEN @ + 1 ELSE @])
            /\ outcome' = [outcome EXCEPT ![worker[w].job.id] =
                                    [status |-> "raised", translated |-> 0]]
    /\ UNCHANGED << toc, chunker, relevance, window, store, cfg, responses, chapter_queue, xhtml, chapter_completed, dequeued >>

\* What a ContextManager has: the attributes __init__ sets (lines 44-63) and
\* the methods of the class.
ContextManagerAttributes ==
    { "output_folder", "epub_name", "context_mode", "notes_mode",
      "context_folder", "character_file", "place_file", "terms_file",
      "notes_file", "characters", "places", "terms", "notes",
      "load_characters", "load_places", "load_terms", "load_notes",
      "save_characters", "save_places", "save_terms", "save_notes",
      "update_characters", "update_places", "update_terms", "update_notes",
      "get_character_prompt", "get_place_prompt", "get_terms_prompt",
      "get_notes_prompt" }

\* translate_chunk, lines 454-455: with context mode on,
\* self.context_manager.context_filter_enabled is read, which raises
\* AttributeError on an object without that attribute.
translate_chunk_raises(context_mode) ==
    context_mode /\ "context_filter_enabled" \notin ContextManagerAttributes

\* translate_chunk, lines 453-503: the prompts put in front of the chunk.
\* With context mode on and no filter the three glossary prompts that are
\* not empty, then with notes mode on the notes prompt if it is not empty.
base_messages_of(context_mode, notes_mode, cm) ==
    LET keep(prompt) == prompt # << >>
    IN  (IF context_mode
         THEN SelectSeq(<< get_character_prompt(cm), get_place_prompt(cm),
                           get_terms_prompt(cm) >>, keep)
         ELSE << >>)
        \o (IF notes_mode
            THEN SelectSeq(<< get_notes_prompt(cm) >>, keep)
            ELSE << >>)

\* zip of Python
Zip(a, b) ==
    [k \in 1..(IF Len(a) <= Len(b) THEN Len(a) ELSE Len(b)) |-> << a[k], b[k] >>]

\* translate_chunk, lines 522-536: the pairs of an earlier chunk of the
\* chapter and its translation that go into the request.
previous_parts_of(send_previous_chunks, current_chapter_chunks, current_chapter_translations) ==
    IF send_previous_chunks /\ current_chapter_chunks # << >>
    THEN Zip(current_chapter_chunks, current_chapter_translations)
    ELSE << >>

\* translate_chapter, lines 283-297: the head of the chunk loop and the call
\* of translate_chunk, which returns None without an API key (lines
\* 441-443), or builds the messages and enters _attempt_translation, or
\* raises, which leaves translate_chapter and reaches the handler of run.
ForChunk(w) ==
    /\ worker[w].pc = "for_chunk"
    /\ IF worker[w].i > worker[w].job.chunks
       THEN /\ Set(w, [worker[w] EXCEPT !.pc = "chapter_end"])
            /\ UNCHANGED outcome
       ELSE IF ~worker[w].is_running
       THEN /\ Set(w, [worker[w] EXCEPT !.pc = "chapter_end",
                                        !.all_chunks_successful = FALSE])
            /\ UNCHANGED outcome
       ELSE IF cfg.api_key = ""
       THEN /\ Set(w, [worker[w] EXCEPT !.pc = "translated",
                                        !.translated_chunk = None,
                                        !.attempts = << >>])
            /\ UNCHANGED outcome
       ELSE IF translate_chunk_raises(cfg.context_mode)
       THEN /\ Set(w, [Returned(worker[w]) EXCEPT
                         !.pc = AfterChapterException,
                         !.finished = IF AfterChapterException = "done"
                                      THEN @ + 1 ELSE @])
            /\ outcome' = [outcome EXCEPT ![worker[w].job.id] =
                                    [status |-> "raised",
                                     translated |-> Len(worker[w].translated_chunks)]]
       ELSE /\ Set(w, [worker[w] EXCEPT
                         !.pc = "for_provider",
                         !.provider_index = 1,
                         !.attempts = << >>,
                         !.success = FALSE,
                         !.interrupted = FALSE,
                         !.stream_error = FALSE,
                         !.base_messages =
                             base_messages_of(cfg.context_mode, cfg.notes_mode,
                                              worker[w].context_manager),
                         !.previous_parts =
                             previous_parts_of(cfg.send_previous_chunks,
                                               worker[w].current_chapter_chunks,
                                               worker[w].current_chapter_translations)])
            /\ UNCHANGED outcome
    /\ UNCHANGED << toc, chunker, relevance, window, store, cfg, responses, chapter_queue, xhtml, chapter_completed, dequeued >>

\* _attempt_translation, lines 686-688 and 877-891: the head of the provider
\* loop; past the last provider, or stopped, the rotation returns None.
ForProvider(w) ==
    /\ worker[w].pc = "for_provider"
    /\ Set(w, IF worker[w].provider_index > Len(provider_list) \/ ~worker[w].is_running
              THEN [worker[w] EXCEPT !.pc = "translated", !.translated_chunk = None]
              ELSE [worker[w] EXCEPT !.pc = "for_retry", !.retry_attempt = 0])
    /\ UNCHANGED << toc, chunker, relevance, window, store, cfg, responses, chapter_queue, xhtml, chapter_completed, dequeued, outcome >>

\* Mutant of RetriesLeft: one turn too many.
RetriesLeft_OffByOne(retry_attempt) == retry_attempt <= cfg.retries_per_provider

\* line 691: for retry_attempt in range(self.retries_per_provider)
RetriesLeft(retry_attempt) == retry_attempt < cfg.retries_per_provider

\* Mutant of MayAttempt: the check in front of the attempt is missing.
MayAttempt_Unchecked(is_running) == TRUE

\* lines 692-693: the stop check in front of every attempt
MayAttempt(is_running) == is_running

\* _attempt_translation, lines 691-713: the head of the retry loop. An
\* attempt starts here, with the check of the stop flag.
ForRetry(w) ==
    /\ worker[w].pc = "for_retry"
    /\ Set(w, IF RetriesLeft(worker[w].retry_attempt) /\ MayAttempt(worker[w].is_running)
              THEN [worker[w] EXCEPT
                      !.pc = "create",
                      !.attempts = Append(@, << worker[w].provider_index,
                                                worker[w].retry_attempt + 1 >>)]
              ELSE [worker[w] EXCEPT !.pc = "for_provider",
                                     !.provider_index = @ + 1])
    /\ UNCHANGED << toc, chunker, relevance, window, store, cfg, responses, chapter_queue, xhtml, chapter_completed, dequeued, outcome >>

\* Mutant of OnSuccess: the translation is kept but the loop goes on.
OnSuccess_NoReturn(wk, merged, obj) ==
    [wk EXCEPT !.pc = "for_retry",
               !.retry_attempt = @ + 1,
               !.success = TRUE,
               !.context_manager = merged.cm,
               !.translated_chunk = complete_translation(obj)]

\* lines 811-848: a usable response; the deltas are merged and the
\* translation is returned, which ends the rotation.
OnSuccess(wk, merged, obj) ==
    [wk EXCEPT !.pc = "translated",
               !.success = TRUE,
               !.context_manager = merged.cm,
               !.translated_chunk = complete_translation(obj)]

\* lines 850-875: a failed attempt; the retry loop takes its next turn.
OnFailure(wk) ==
    [wk EXCEPT !.pc = "for_retry",
               !.retry_attempt = @ + 1,
               !.interrupted = FALSE,
               !.stream_error = FALSE]

\* _attempt_translation, lines 715-765 and 864-875: the request. It raises
\* (transport error, timeout), which the handler turns into the next turn of
\* the retry loop, or it returns a stream.
Create(w) ==
    /\ worker[w].pc = "create"
    /\ \/ Set(w, OnFailure(worker[w]))
       \/ \E r \in responses :
            Set(w, [worker[w] EXCEPT !.pc = "stream",
                                     !.stream = r,
                                     !.current_response = << >>,
                                     !.interrupted = FALSE,
                                     !.stream_error = FALSE])
    /\ UNCHANGED << toc, chunker, relevance, window, store, cfg, responses, chapter_queue, xhtml, chapter_completed, dequeued, outcome >>

\* _attempt_translation, lines 767-799: one turn of the loop over the
\* stream. The stream raises (caught at line 795), ends, or yields the next
\* piece, which is dropped with a break when the worker was stopped.
Stream(w) ==
    /\ worker[w].pc = "stream"
    /\ \/ Set(w, [worker[w] EXCEPT !.pc = "parse", !.stream_error = TRUE])
       \/ /\ worker[w].stream = << >>
          /\ Set(w, [worker[w] EXCEPT !.pc = "parse"])
       \/ /\ worker[w].stream # << >>
          /\ Set(w, IF ~worker[w].is_running
                    THEN [worker[w] EXCEPT !.pc = "parse", !.interrupted = TRUE]
                    ELSE [worker[w] EXCEPT
                            !.current_response = Append(@, Head(worker[w].stream)),
                            !.stream = Tail(@)])
    /\ UNCHANGED << toc, chunker, relevance, window, store, cfg, responses, chapter_queue, xhtml, chapter_completed, dequeued, outcome >>

\* _attempt_translation, lines 826-864: the response was usable and `after`
\* is the outcome of the merge of its deltas. The translation is returned,
\* or an exception of the merge reaches the handler at line 864 with what
\* was merged before it kept. The saves of the merge wrote the files of
\* the context folder.
ParseMerged(w, obj, after) ==
    /\ Set(w, IF after.raised
              THEN OnFailure([worker[w] EXCEPT !.context_manager = Memory(after.cm)])
              ELSE OnSuccess(worker[w],
                             [cm |-> Memory(after.cm), raised |-> after.raised], obj))
    /\ store' = after.cm

\* _attempt_translation, lines 811-875, on the parsed text json_data: a
\* usable response is merged; anything else is the next turn of the retry
\* loop.
ParseOf(w, json_data) ==
    IF StructurallyValid(json_data)
    THEN \E ioc \in SaveOutcomes, ion \in SaveOutcomes :
            ParseMerged(w, json_data.obj,
                        MergeDeltas(cfg.context_mode, cfg.notes_mode,
                                    OverFiles(worker[w].context_manager, store),
                                    json_data.obj, ioc, ion))
    ELSE /\ Set(w, OnFailure(worker[w]))
         /\ UNCHANGED store

\* _attempt_translation, lines 808-875: parse the collected text.
Parse(w) ==
    /\ worker[w].pc = "parse"
    /\ ParseOf(w, extract_json_from_response(worker[w].current_response))
    /\ UNCHANGED << toc, chunker, relevance, window, cfg, responses, chapter_queue, xhtml, chapter_completed, dequeued, outcome >>

\* Mutant of ChunkFailed: the result of translate_chunk is not looked at.
ChunkFailed_Never(translated_chunk) == FALSE

\* translate_chapter, line 299: if translated_chunk is None
ChunkFailed(translated_chunk) == translated_chunk = None

\* Mutant of AfterFailedChunk: the loop goes on with the next chunk.
AfterFailedChunk_Continue(wk) ==
    [wk EXCEPT !.pc = "for_chunk", !.i = @ + 1, !.all_chunks_successful = FALSE]

\* translate_chapter, lines 300-301: all_chunks_successful = False; break
AfterFailedChunk(wk) ==
    [wk EXCEPT !.pc = "chapter_end", !.all_chunks_successful = FALSE]

\* Mutant of AppendIfSent: nothing is kept.
AppendIfSent_Never(send_previous_chunks, list, item) == list

\* translate_chapter, lines 305-307
AppendIfSent(send_previous_chunks, list, item) ==
    IF send_previous_chunks THEN Append(list, item) ELSE list

\* translate_chapter, lines 299-307: the result of translate_chunk. A source
\* chunk is named by its chapter and its place in it.
Translated(w) ==
    /\ worker[w].pc = "translated"
    /\ Set(w, IF ChunkFailed(worker[w].translated_chunk)
              THEN AfterFailedChunk(worker[w])
              ELSE [worker[w] EXCEPT
                      !.pc = "for_chunk",
                      !.translated_chunks = Append(@, worker[w].translated_chunk),
                      !.current_chapter_chunks =
                          AppendIfSent(cfg.send_previous_chunks, @,
                                       << worker[w].job.chapter_number, worker[w].i >>),
                      !.current_chapter_translations =
                          AppendIfSent(cfg.send_previous_chunks, @,
                                       worker[w].translated_chunk),
                      !.i = @ + 1])
    /\ UNCHANGED << toc, chunker, relevance, window, store, cfg, responses, chapter_queue, xhtml, chapter_completed, dequeued, outcome >>

\* Mutant of ChapterSucceeded: the chunks that did translate are written.
ChapterSucceeded_Partial(wk) == wk.is_running

\* translate_chapter, line 309: the condition under which the chapter's file
\* is created.
ChapterSucceeded(wk) ==
    /\ wk.all_chunks_successful
    /\ wk.is_running
    /\ Len(wk.translated_chunks) = wk.job.chunks

\* translate_chapter, lines 309-326, create_xhtml_chapter (which catches its
\* own errors, so a failed write leaves no file) and task_done of run.
ChapterEnd(w) ==
    /\ worker[w].pc = "chapter_end"
    /\ Set(w, [Returned(worker[w]) EXCEPT !.pc = "run"])
    /\ IF ChapterSucceeded(worker[w])
       THEN /\ \/ xhtml' = [xhtml EXCEPT ![worker[w].job.chapter_number] =
                                            worker[w].translated_chunks]
               \/ UNCHANGED xhtml
            /\ chapter_completed' = Append(chapter_completed,
                                           worker[w].job.chapter_number)
            /\ outcome' = [outcome EXCEPT ![worker[w].job.id] =
                                    [status |-> "completed",
                                     translated |-> Len(worker[w].translated_chunks)]]
       ELSE /\ outcome' = [outcome EXCEPT ![worker[w].job.id] =
                                    [status |-> "failed",
                                     translated |-> Len(worker[w].translated_chunks)]]
            /\ UNCHANGED << xhtml, chapter_completed >>
    /\ UNCHANGED << toc, chunker, relevance, window, store, cfg, responses, chapter_queue, dequeued >>

\* run, line 128: self.finished.emit(self.worker_id)
FinishedEmit(w) ==
    /\ worker[w].pc = "finished_emit"
    /\ Set(w, [worker[w] EXCEPT !.pc = "done", !.finished = @ + 1])
    /\ UNCHANGED << toc, chunker, relevance, window, store, cfg, responses, chapter_queue, xhtml, chapter_completed, dequeued, outcome >>

\* stop_translation, lines 1277-1282, and TranslationWorker.stop: the
\* workers are stopped one after the other, each joined before the next.
Stop(w) ==
    /\ worker[w].is_running
    /\ worker[w].pc # "done"
    /\ \A v \in Workers : v < w => worker[v].pc = "done"
    /\ Set(w, [worker[w] EXCEPT !.is_running = FALSE])
    /\ UNCHANGED << toc, chunker, relevance, window, store, cfg, responses, chapter_queue, xhtml, chapter_completed, dequeued, outcome >>

Next ==
    \/ \E w \in Workers : RunLoop(w)
    \/ \E w \in Workers : GetNowait(w)
    \/ \E w \in Workers : TranslateChapter(w)
    \/ \E w \in Workers : ForChunk(w)
    \/ \E w \in Workers : ForProvider(w)
    \/ \E w \in Workers : ForRetry(w)
    \/ \E w \in Workers : Create(w)
    \/ \E w \in Workers : Stream(w)
    \/ \E w \in Workers : Parse(w)
    \/ \E w \in Workers : Translated(w)
    \/ \E w \in Workers : ChapterEnd(w)
    \/ \E w \in Workers : FinishedEmit(w)
    \/ \E w \in Workers : Stop(w)

\* ---------------------------------------------------------- main window
\* The value update_controls puts back into the concurrency spin box when
\* no mode forces a single worker and the box holds 1.
DefaultConcurrency == 3

\* ---------------------------------------------------- chapter selection
\* The text of a line edit as int() sees it: the decimal text of a number,
\* or a text that is none.
Numeral(k) == [digits |-> TRUE, value |-> k]
NotANumber == [digits |-> FALSE, value |-> 0]

\* One part of the CSV entry between two commas: a number, a-b, or a text
\* that is neither. A part with a minus sign in front is split at the sign
\* and int('') raises, like the empty part.
Single(k) == [kind |-> IF k < 0 THEN "junk" ELSE "single", a |-> k, b |-> k]
FromTo(a, b) == [kind |-> "range", a |-> a, b |-> b]
Junk == [kind |-> "junk", a |-> 0, b |-> 0]

\* A bound of a Python slice on a list of n items.
SliceBound(i, n) ==
    IF i < 0 THEN (IF i + n < 0 THEN 0 ELSE i + n)
    ELSE IF i > n THEN n ELSE i

\* seq[lo:hi] of Python
Slice(seq, lo, hi) ==
    SubSeq(seq, SliceBound(lo, Len(seq)) + 1, SliceBound(hi, Len(seq)))

\* seq[j] of Python raises IndexError
IndexError(seq, j) == j < 0 - Len(seq) \/ j >= Len(seq)

\* seq[j] of Python
Item(seq, j) == seq[(IF j < 0 THEN j + Len(seq) ELSE j) + 1]

\* list(range(a, b + 1))
RangeList(a, b) == IF b < a THEN << >> ELSE [k \in 1..(b - a + 1) |-> a + k - 1]

\* start_translation, lines 1163-1171: the chapter range
select_range(chapters, start_text, end_text) ==
    IF ~start_text.digits \/ ~end_text.digits
    THEN [warning |-> "Invalid chapter range!", numbers |-> << >>, selected |-> << >>]
    ELSE [warning |-> "none",
          numbers |-> RangeList(start_text.value, end_text.value),
          selected |-> Slice(chapters, start_text.value - 1, end_text.value)]

\* lines 1174-1181: the numbers the parts of the CSV entry give
RECURSIVE csv_numbers(_)
csv_numbers(parts) ==
    IF parts = << >> THEN << >>
    ELSE (IF Head(parts).kind = "range"
          THEN RangeList(Head(parts).a, Head(parts).b)
          ELSE << Head(parts).a >>) \o csv_numbers(Tail(parts))

\* lines 1172-1186: the CSV entry
select_csv(chapters, parts) ==
    IF \/ \E k \in 1..Len(parts) : parts[k].kind = "junk"
       \/ \E k \in 1..Len(csv_numbers(parts)) :
             IndexError(chapters, csv_numbers(parts)[k] - 1)
    THEN [warning |-> "Invalid chapter numbers!", numbers |-> << >>, selected |-> << >>]
    ELSE [warning |-> "none",
          numbers |-> csv_numbers(parts),
          selected |-> [k \in 1..Len(csv_numbers(parts)) |->
                           Item(chapters, csv_numbers(parts)[k] - 1)]]

\* lines 1188-1191: the queue of (chapter number, chapter)
queue_of(selection) ==
    [k \in 1..Len(Zip(selection.numbers, selection.selected)) |->
        [chapter_number |-> selection.numbers[k], chapter |-> selection.selected[k]]]

\* The window after setup_ui: nothing checked, no worker started.
NewWindow ==
    [ context_mode_check |-> FALSE,
      notes_mode_check |-> FALSE,
      concurrency_spin |-> 1,
      concurrency_enabled |-> TRUE,
      api_key_entry |-> "",
      chapters |-> << >>,
      range_radio |-> TRUE,
      start_chapter_entry |-> Numeral(1),
      end_chapter_entry |-> Numeral(1),
      csv_entry |-> << Junk >>,
      warning |-> "none",
      workers |-> {},
      worker_count |-> 0 ]

\* update_controls, lines 857-865
update_controls(win) ==
    IF win.context_mode_check \/ win.notes_mode_check
    THEN [win EXCEPT !.concurrency_spin = 1, !.concurrency_enabled = FALSE]
    ELSE [win EXCEPT !.concurrency_enabled = TRUE,
                     !.concurrency_spin = IF @ = 1 THEN DefaultConcurrency ELSE @]

\* load_config_to_ui, lines 562 and 587-613: the key entry, the check boxes
\* and the spin box take the configuration's values, then update_controls
\* runs.
load_config_to_ui(win, config) ==
    update_controls([win EXCEPT !.context_mode_check = config.context_mode,
                                !.notes_mode_check = config.notes_mode,
                                !.concurrency_spin = config.concurrent_workers,
                                !.api_key_entry = config.api_key])

\* The texts of the API key entry: nothing, a blank, a key.
ApiKeyTexts == {"", " ", ApiKey}

\* The configurations a file can hold.
WindowConfigs ==
    [context_mode : BOOLEAN, notes_mode : BOOLEAN, concurrent_workers : 1..MaxSpin,
     api_key : ApiKeyTexts]

Frame == UNCHANGED << cfg, responses, chapter_queue, worker, xhtml,
                      chapter_completed, dequeued, outcome, chunker,
                      relevance, toc >>

\* The user toggles the context mode box; toggled is connected to
\* update_controls (line 495).
ToggleContextMode ==
    /\ window' = update_controls([window EXCEPT !.context_mode_check = ~@])
    /\ Frame /\ UNCHANGED store

\* The user toggles the notes mode box (line 496).
ToggleNotesMode ==
    /\ window' = update_controls([window EXCEPT !.notes_mode_check = ~@])
    /\ Frame /\ UNCHANGED store

\* The user edits the concurrency spin box, which an enabled box allows.
SetConcurrency ==
    /\ window.concurrency_enabled
    /\ \E n \in 1..MaxSpin : window' = [window EXCEPT !.concurrency_spin = n]
    /\ Frame /\ UNCHANGED store

\* load_config_from_file, lines 686-700
LoadConfig ==
    /\ \E config \in WindowConfigs : window' = load_config_to_ui(window, config)
    /\ Frame /\ UNCHANGED store

\* The user edits the API key entry.
EditApiKey ==
    /\ \E text \in ApiKeyTexts : window' = [window EXCEPT !.api_key_entry = text]
    /\ Frame /\ UNCHANGED store

\* Mutant of HasApiKey: any text of the entry passes.
HasApiKey_Unchecked(text) == TRUE

\* start_translation, lines 1145-1148: api_key = text.strip(); without one,
\* a warning and return.
HasApiKey(text) == strip(text) # ""

\* start_translation, lines 1145-1148 and 1215-1275: with an API key, as many
\* workers as the spin box says are constructed with the modes of the check
\* boxes, registered in self.workers and started.
WithWorkers(win) ==
    [win EXCEPT
       !.workers = @ \cup
          { [worker_id |-> win.worker_count + k,
             context_mode |-> win.context_mode_check,
             notes_mode |-> win.notes_mode_check] :
            k \in 0..(win.concurrency_spin - 1) },
       !.worker_count = @ + win.concurrency_spin]

StartTranslation ==
    /\ HasApiKey(window.api_key_entry)
    /\ window.worker_count + window.concurrency_spin <= MaxStarted
    /\ window' = WithWorkers(window)
    /\ Frame /\ UNCHANGED store

\* cleanup_worker, lines 1325-1335: a worker emitted finished
CleanupWorker ==
    /\ \E wk \in window.workers : window' = [window EXCEPT !.workers = @ \ {wk}]
    /\ Frame /\ UNCHANGED store

\* stop_translation, lines 1277-1282: every worker stopped and joined
StopTranslation ==
    /\ window.workers # {}
    /\ window' = [window EXCEPT !.workers = {}]
    /\ Frame /\ UNCHANGED store

NextWindow ==
    \/ ToggleContextMode
    \/ ToggleNotesMode
    \/ SetConcurrency
    \/ LoadConfig
    \/ EditApiKey
    \/ StartTranslation
    \/ CleanupWorker
    \/ StopTranslation

\* The state after start_translation: the queue filled, the workers
\* constructed and their threads started.
StartedWorkers(config, resp, nworkers, queue) ==
    /\ cfg = config
    /\ responses = resp
    /\ chapter_queue = queue
    /\ worker = [w \in 1..nworkers |-> NewWorker]
    /\ xhtml = [c \in 1..MaxJobs |-> NoFile]
    /\ chapter_completed = << >>
    /\ dequeued = << >>
    /\ outcome = [j \in 1..MaxJobs |-> [status |-> "none", translated |-> 0]]

\* TocTranslationWorker.__init__, lines 42-45
toc_providers_of(providers_list) ==
    IF Len(providers_list) > 0 THEN providers_list
    ELSE << "deepseek/deepseek-v3.2-exp" >>

\* translate_batch, lines 166-175, for a worker constructed with a provider
\* list and a number of retries: the locals in front of the loop. `tried` is
\* the history of the attempts, as (provider, attempt of this provider).
NewBatch(api_key, providers_list, retries_per_provider) ==
    [ pc |-> IF api_key = "" THEN "returned" ELSE "while",
      is_running |-> TRUE,
      providers |-> toc_providers_of(providers_list),
      retries_per_provider |-> retries_per_provider,
      provider_index |-> 0,
      attempts |-> 0,
      max_total_attempts |->
          Len(toc_providers_of(providers_list)) * retries_per_provider,
      tried |-> << >>,
      result |-> None ]

\* No call of translate_batch.
NoBatch == [NewBatch(ApiKey, << >>, 1) EXCEPT !.pc = "none"]

\* translate_batch, lines 177-181 and 315-316: the head of the loop
toc_while(b) ==
    IF b.attempts < b.max_total_attempts
    THEN IF ~b.is_running THEN [b EXCEPT !.pc = "returned", !.result = None]
         ELSE [b EXCEPT !.pc = "attempt",
                        !.tried = Append(@, << b.provider_index + 1,
                                               (b.attempts % b.retries_per_provider) + 1 >>)]
    ELSE [b EXCEPT !.pc = "returned", !.result = None]

\* The ways an attempt of translate_batch ends: the translations are
\* returned (line 291), the response is no JSON (line 293), anything else
\* is raised (line 304), or the worker was stopped while the response was
\* streamed (lines 235-236).
TocOutcomes == {"translations", "JSONDecodeError", "Exception", "stopped"}

\* translate_batch, lines 183-313: one attempt and its handlers
toc_attempt(b, how) ==
    IF how = "translations" THEN [b EXCEPT !.pc = "returned", !.result = "translations"]
    ELSE IF how = "stopped" THEN [b EXCEPT !.pc = "returned", !.result = None]
    ELSE [b EXCEPT !.pc = "while",
                   !.attempts = @ + 1,
                   !.provider_index =
                       IF (b.attempts + 1) % b.retries_per_provider = 0
                       THEN (@ + 1) % Len(b.providers) ELSE @]

\* The same, with no call of split_chapter, of a filter or of
\* translate_batch under way.
Started(config, resp, nworkers, queue) ==
    /\ StartedWorkers(config, resp, nworkers, queue)
    /\ chunker = NoSplit
    /\ relevance = NoFilter
    /\ toc = NoBatch

\* One worker, one chapter, every provider behaviour.
Init ==
    /\ window = NewWindow
    /\ \E config \in Configs, queue \in Jobs(1, MaxChunks) :
          /\ store = NewStore(config.context_mode, config.notes_mode)
          /\ Started(config, AllResponses, 1, queue)

Spec == Init /\ [][Next]_vars

\* ---------------------------------------------------------------- claims
\* The (provider, attempt) pairs of a rotation that runs to exhaustion.
RotationOrder(P, R) ==
    [k \in 1..(P * R) |-> << ((k - 1) \div R) + 1, ((k - 1) % R) + 1 >>]

\* C1: a rotation in which no attempt succeeded and the worker was never
\* stopped has made exactly P*R attempts, provider by provider, R times each
\* (P = 1 with a custom endpoint), and returns None.
C1_RotationExhaustion ==
    \A w \in Workers :
        (worker[w].pc = "translated" /\ ~worker[w].success /\ worker[w].is_running)
        => /\ worker[w].translated_chunk = None
           /\ worker[w].attempts =
                RotationOrder(IF cfg.use_custom THEN 1 ELSE Len(cfg.providers),
                              cfg.retries_per_provider)

C1_Witness ==
    \E w \in Workers :
        /\ worker[w].pc = "translated" /\ ~worker[w].success /\ worker[w].is_running
        /\ ~cfg.use_custom /\ Len(cfg.providers) = 2 /\ cfg.retries_per_provider = 2
        /\ worker[w].attempts = << <<1, 1>>, <<1, 2>>, <<2, 1>>, <<2, 2>> >>

\* C2: the file of a chapter exists only if the job of that chapter ended
\* completed, and then it holds one translation per chunk of the chapter; a
\* job that ended failed or raised has left no file.
C2_ChapterAtomicity ==
    /\ \A c \in DOMAIN xhtml :
          xhtml[c] # NoFile =>
             \E k \in 1..Len(dequeued) : dequeued[k].job.chapter_number = c
    /\ \A k \in 1..Len(dequeued) :
          LET j == dequeued[k].job
          IN  /\ xhtml[j.chapter_number] # NoFile =>
                    /\ outcome[j.id].status = "completed"
                    /\ Len(xhtml[j.chapter_number]) = j.chunks
                    /\ \A n \in 1..j.chunks : xhtml[j.chapter_number][n] = Translation
              /\ outcome[j.id].status \in {"failed", "raised"} =>
                    xhtml[j.chapter_number] = NoFile

\* Chunk 1 of a two-chunk chapter was translated, chunk 2 failed for good
\* (the worker was not stopped), and the chapter has ended.
C2_Witness ==
    \E k \in 1..Len(dequeued) :
        LET j == dequeued[k].job
        IN  /\ j.chunks = 2
            /\ outcome[j.id] = [status |-> "failed", translated |-> 1]
            /\ worker[dequeued[k].worker].is_running
            /\ xhtml[j.chapter_number] = NoFile

\* The positions of a worker inside one provider attempt or between two.
RotationPcs == {"for_provider", "for_retry", "create", "stream", "parse"}

\* C4: from the step on that reaches Success, the rotation of that chunk
\* makes no further attempt: the worker is back in translate_chapter and the
\* list of attempts of the chunk stays as it is.
C4_SuccessReturnsImmediately ==
    [][\A w \in Workers :
         /\ (worker[w].pc = "parse" /\ worker'[w].success) =>
               /\ worker'[w].pc = "translated"
               /\ worker'[w].attempts = worker[w].attempts
         /\ (worker[w].success /\ worker'[w].success) =>
               /\ worker'[w].pc \notin RotationPcs
               /\ worker'[w].attempts = worker[w].attempts
         /\ (worker[w].success /\ ~worker'[w].success) =>
               \/ worker'[w].pc = "run"
               \/ /\ worker'[w].pc = "for_provider"
                  /\ worker'[w].attempts = << >>
                  /\ worker'[w].i = Len(worker'[w].translated_chunks) + 1]_vars

\* An attempt succeeded although the rotation had attempts left.
C4_Witness ==
    \E w \in Workers :
        /\ worker[w].pc = "translated" /\ worker[w].success
        /\ ~cfg.use_custom /\ Len(cfg.providers) = 2 /\ cfg.retries_per_provider = 2
        /\ worker[w].attempts = << <<1, 1>> >>

C3_ValidResponseSucceeds ==
    [][\A w \in Workers :
         (worker[w].pc = "parse" /\ worker'[w].pc # "parse") =>
            LET json_data == extract_json_from_response(worker[w].current_response)
            IN  IF StructurallyValid(json_data)
                THEN /\ worker'[w].pc = "translated"
                     /\ worker'[w].success
                     /\ worker'[w].translated_chunk = complete_translation(json_data.obj)
                ELSE /\ worker'[w].pc = "for_retry"
                     /\ worker'[w].retry_attempt = worker[w].retry_attempt + 1]_vars

\* C6: the text of an attempt whose stream loop was left by the stop check
\* is dropped: the attempt does not end in Success and merges nothing.
C6_InterruptedTextDiscarded ==
    [][\A w \in Workers :
         (worker[w].pc = "parse" /\ worker[w].interrupted /\ worker'[w].pc # "parse") =>
            /\ ~worker'[w].success
            /\ worker'[w].context_manager = worker[w].context_manager]_vars

HoldsTranslationObject(s) ==
    \E a \in 1..Len(s), b \in 1..Len(s) :
        /\ a < b /\ s[a] = "lb" /\ s[b] = "rb"
        /\ \A k \in (a + 1)..(b - 1) : s[k] \in Members
        /\ \E k \in (a + 1)..(b - 1) : s[k] \in {"ct", "ct_null"}

PoolConfig ==
    [ use_custom |-> FALSE,
      providers |-> providers_of(SubSeq(ProviderNames, 1, 1)),
      retries_per_provider |-> 1,
      context_mode |-> FALSE,
      notes_mode |-> FALSE,
      api_key |-> ApiKey,
      send_previous_chunks |-> FALSE ]

InitPool ==
    /\ window = NewWindow
    /\ store = NewStore(PoolConfig.context_mode, PoolConfig.notes_mode)
    /\ \E queue \in Jobs(MaxJobs, 1) :
          Started(PoolConfig, {ValidPlain, NotJson}, MaxWorkers, queue)

SpecPool == InitPool /\ [][Next]_vars

\* The steps of worker w's thread.
WorkerStep(w) ==
    \/ RunLoop(w) \/ GetNowait(w) \/ TranslateChapter(w) \/ ForChunk(w)
    \/ ForProvider(w) \/ ForRetry(w) \/ Create(w) \/ Stream(w) \/ Parse(w)
    \/ Translated(w) \/ ChapterEnd(w) \/ FinishedEmit(w)

\* Every worker is a thread of its own (start_translation, lines 1249 and
\* 1275) and a request ends within its timeout (line 758): a worker that
\* can take a step does take one.
SpecPoolFair ==
    InitPool /\ [][Next]_vars /\ \A w \in 1..MaxWorkers : WF_vars(WorkerStep(w))

\* C8: a worker ends (emits finished) only when it was stopped or the queue
\* is empty: a chapter that failed or raised does not end it while jobs are
\* left.
C8_WorkerSurvivesChapterFailure ==
    \A w \in Workers :
        worker[w].pc = "done" => (~worker[w].is_running \/ chapter_queue = << >>)

\* C9: every job is dequeued at most once, a dequeued job is no longer on
\* the queue, and the job a worker holds is one that this worker dequeued
\* and that no other worker holds.
C9_DequeuedByOneWorker ==
    /\ \A a \in 1..Len(dequeued), b \in 1..Len(dequeued) :
          a # b => dequeued[a].job.id # dequeued[b].job.id
    /\ \A a \in 1..Len(dequeued), k \in 1..Len(chapter_queue) :
          chapter_queue[k].id # dequeued[a].job.id
    /\ \A w \in Workers :
          worker[w].job # NoJob =>
             /\ \E a \in 1..Len(dequeued) :
                   dequeued[a] = [job |-> worker[w].job, worker |-> w]
             /\ \A v \in Workers : v # w => worker[v].job # worker[w].job

\* Two workers each hold a job of the queue at the same time.
C9_Witness ==
    \E w \in Workers, v \in Workers :
        /\ w # v
        /\ worker[w].job # NoJob /\ worker[v].job # NoJob
        /\ chapter_queue = << >>

\* Every job was dequeued and has ended completed or failed, the queue is
\* empty and every worker has ended with one finished signal.
AllDone ==
    /\ chapter_queue = << >>
    /\ \A j \in DOMAIN outcome : outcome[j].status \in {"completed", "failed"}
    /\ {dequeued[a].job.id : a \in 1..Len(dequeued)} = DOMAIN outcome
    /\ \A w \in Workers : worker[w].pc = "done" /\ worker[w].finished = 1

SomeStopped == \E w \in Workers : ~worker[w].is_running
SomeRaised == \E j \in DOMAIN outcome : outcome[j].status = "raised"

\* C10: under fair scheduling, unless a worker is stopped or a step outside
\* the provider attempt raises, every job is dequeued and ends completed or
\* failed, the queue empties and every worker ends with exactly one finished.
C10_PoolDrainsQueue ==
    /\ <>(SomeStopped \/ SomeRaised \/ AllDone)
    /\ [](\A w \in Workers : worker[w].finished <= 1)

C10_Witness ==
    /\ AllDone
    /\ ~SomeStopped
    /\ \E j \in DOMAIN outcome : outcome[j].status = "failed"
    /\ \E j \in DOMAIN outcome : outcome[j].status = "completed"

\* C11: a worker that is in the rotation of chunk i of its chapter holds the
\* translations of chunks 1..i-1, each returned by a rotation that ended in
\* Success; a worker is at one chunk of its chapter at a time.
C11_ChunksInSequence ==
    \A w \in Workers :
        worker[w].pc \in RotationPcs =>
            /\ worker[w].i \in 1..worker[w].job.chunks
            /\ Len(worker[w].translated_chunks) = worker[w].i - 1
            /\ \A k \in 1..Len(worker[w].translated_chunks) :
                  worker[w].translated_chunks[k] # None
            /\ worker[w].all_chunks_successful

\* The request for the second chunk of a chapter is out, the first chunk
\* translated.
C11_Witness ==
    \E w \in Workers :
        /\ worker[w].pc = "create"
        /\ worker[w].i = 2
        /\ worker[w].translated_chunks = << Translation >>

\* C12: a chunk whose rotation returned None ends the chunk loop; a worker
\* whose chapter has a failed chunk is at the end of translate_chapter, makes
\* no attempt, and leaves it with the chapter failed, no file written and no
\* completion signalled.
C12_FirstFailureAborts ==
    [][\A w \in Workers :
         /\ (/\ worker[w].pc = "translated"
             /\ worker[w].translated_chunk = None
             /\ worker'[w].pc # worker[w].pc) =>
               /\ worker'[w].pc = "chapter_end"
               /\ ~worker'[w].all_chunks_successful
               /\ worker'[w].attempts = worker[w].attempts
         /\ ~worker[w].all_chunks_successful =>
               /\ worker[w].pc = "chapter_end"
               /\ worker'[w].pc # worker[w].pc =>
                     /\ worker'[w].pc = "run"
                     /\ outcome'[worker[w].job.id].status = "failed"
                     /\ xhtml' = xhtml
                     /\ chapter_completed' = chapter_completed]_vars

\* The first of two chunks failed on every provider and every retry, the
\* worker was not stopped, and the chapter is over.
C12_Witness ==
    \E w \in Workers :
        /\ worker[w].pc = "chapter_end"
        /\ worker[w].is_running
        /\ worker[w].job.chunks = 2
        /\ worker[w].i = 1
        /\ ~worker[w].all_chunks_successful
        /\ Len(worker[w].attempts) = Len(provider_list) * cfg.retries_per_provider

\* The workers' variables while only the window or the store is looked at.
NoTranslation_Running ==
    Started(PoolConfig, {}, 0, << >>)

\* The main window after its construction: load_config_to_ui has run on the
\* stored configuration (lines 33 and 552-613).
InitWindow ==
    /\ NoTranslation_Running
    /\ \E config \in WindowConfigs : window = load_config_to_ui(NewWindow, config)
    /\ store = NewStore(FALSE, FALSE)

SpecWindow == InitWindow /\ [][NextWindow]_vars

\* C13: no two workers that were constructed with context mode or notes mode
\* on are active at the same time.
C13_SingleWorkerWithGlossary ==
    \A a \in window.workers, b \in window.workers :
        /\ a.context_mode \/ a.notes_mode
        /\ b.context_mode \/ b.notes_mode
        => a = b

\* ------------------------------------------------ glossary store: calls
\* The deltas a response can propose. "sub" is the gender of a character.
CharacterEntries ==
    { [original |-> "A", translated |-> "B", sub |-> "male"],
      [original |-> "A", translated |-> "C", sub |-> "not_clear"],
      [original |-> "A", translated |-> "C", sub |-> "FEMALE"],
      [original |-> "B", translated |-> "B", sub |-> "robot"],
      [original |-> " A ", translated |-> "B", sub |-> Missing],
      [original |-> Missing, translated |-> "B", sub |-> "male"],
      [original |-> "A", translated |-> " ", sub |-> "female"],
      [original |-> " ", translated |-> "B", sub |-> NotAString],
      [original |-> "B", translated |-> "C", sub |-> NotAString] }

\* "sub" is the category of a term.
TermEntries ==
    { [original |-> "A", translated |-> "B", sub |-> "weapon"],
      [original |-> "A", translated |-> "C", sub |-> "other"],
      [original |-> "A", translated |-> "C", sub |-> "SPELL"],
      [original |-> "B", translated |-> "B", sub |-> "robot"],
      [original |-> " A ", translated |-> "B", sub |-> Missing],
      [original |-> "A", translated |-> Missing, sub |-> "spell"],
      [original |-> " ", translated |-> "B", sub |-> "spell"] }

PlaceEntries ==
    { [original |-> "A", translated |-> "B"],
      [original |-> "A", translated |-> "C"],
      [original |-> "B", translated |-> "B"],
      [original |-> " A ", translated |-> "C"],
      [original |-> Missing, translated |-> "B"],
      [original |-> "B", translated |-> " "],
      [original |-> NotAString, translated |-> "B"] }

NoteActions ==
    { [action |-> "add", key |-> "k", note |-> "n"],
      [action |-> "update", key |-> "k", note |-> "m"],
      [action |-> "delete", key |-> "k", note |-> ""],
      [action |-> "add", key |-> "j", note |-> "n"],
      [action |-> "remove", key |-> "j", note |-> "n"],
      [action |-> "update", key |-> "j", note |-> " "],
      [action |-> "add", key |-> " ", note |-> "n"] }

\* The lists of at most MaxBatch deltas.
Batches(entries) == UNION { [1..n -> entries] : n \in 0..MaxBatch }

UpdateCharacters ==
    /\ store.calls < MaxCalls
    /\ \E data \in Batches(CharacterEntries), io \in SaveOutcomes :
          store' = AfterUpdateCharacters(store, data, io)
    /\ Frame /\ UNCHANGED window

UpdatePlaces ==
    /\ store.calls < MaxCalls
    /\ \E data \in Batches(PlaceEntries), io \in SaveOutcomes :
          store' = AfterUpdatePlaces(store, data, io)
    /\ Frame /\ UNCHANGED window

UpdateTerms ==
    /\ store.calls < MaxCalls
    /\ \E data \in Batches(TermEntries), io \in SaveOutcomes :
          store' = AfterUpdateTerms(store, data, io)
    /\ Frame /\ UNCHANGED window

UpdateNotes ==
    /\ store.calls < MaxCalls
    /\ \E data \in Batches(NoteActions), io \in SaveOutcomes :
          store' = AfterUpdateNotes(store, data, io)
    /\ Frame /\ UNCHANGED window

NextGlossary ==
    \/ UpdateCharacters
    \/ UpdatePlaces
    \/ UpdateTerms
    \/ UpdateNotes

\* A file that holds the one member A of a characters or terms file.
OneMember(translated, sub) ==
    [kind |-> "object",
     coll |-> << [original |-> "A", translated |-> translated, sub |-> sub] >>]

\* The four files of a context folder with nothing to read in them.
Unloadable(kind) ==
    LET file == [kind |-> kind, coll |-> << >>]
    IN  [character_file |-> file, place_file |-> file,
         terms_file |-> file, notes_file |-> file]

\* The context folders a session can find: an empty one, the files an
\* earlier session saved, the files of a legacy version (bare strings),
\* files whose records lack the sub-field, and files that cannot be loaded.
ContextFolders ==
    { Unloadable("missing"),
      [Unloadable("missing") EXCEPT !.character_file = OneMember("B", "not_clear")],
      [Unloadable("missing") EXCEPT !.character_file = OneMember("B", BareString),
                                    !.terms_file = OneMember("B", BareString)],
      [Unloadable("missing") EXCEPT !.character_file = OneMember("B", Missing),
                                    !.terms_file = OneMember("B", Missing)],
      Unloadable("array"),
      Unloadable("truncated"),
      Unloadable("unreadable") }

\* The folders of a first session and of a session after one that saved a
\* character.
SavedFolders ==
    { Unloadable("missing"),
      [Unloadable("missing") EXCEPT !.character_file = OneMember("B", "not_clear")] }

\* The ContextManager a worker constructs over a folder.
StoreOver(context_mode, notes_mode, folder) ==
    LoadedStore(context_mode, notes_mode, folder.character_file,
                folder.place_file, folder.terms_file, folder.notes_file)

\* A ContextManager constructed by a worker: over an empty context folder,
\* or over the files an earlier session saved.
InitGlossary ==
    /\ NoTranslation_Running
    /\ window = NewWindow
    /\ \E context_mode \in BOOLEAN, notes_mode \in BOOLEAN, folder \in SavedFolders :
          store = StoreOver(context_mode, notes_mode, folder)

SpecGlossary == InitGlossary /\ [][NextGlossary]_vars

\* A ContextManager with both modes on, constructed over any of the folders.
InitLoad ==
    /\ NoTranslation_Running
    /\ window = NewWindow
    /\ \E folder \in ContextFolders : store = StoreOver(TRUE, TRUE, folder)

SpecLoad == InitLoad /\ [][NextGlossary]_vars

\* A ContextManager with both modes on in a first session.
InitSave ==
    /\ NoTranslation_Running
    /\ window = NewWindow
    /\ store = NewStore(TRUE, TRUE)

SpecSave == InitSave /\ [][NextGlossary]_vars

\* A proposed entry that the merge loops take up: both texts are strings
\* that are not empty after trimming.
IsText(v) == v # Missing /\ v # NotAString /\ strip(v) # ""
Accepted(e) == IsText(e.original) /\ IsText(e.translated)

\* An entry on which a merge loop raises: a .strip() on a value that is no
\* string.
Raises(e) ==
    /\ e.original # Missing /\ e.translated # Missing
    /\ \/ e.original = NotAString
       \/ e.translated = NotAString
       \/ "sub" \in DOMAIN e /\ e.sub = NotAString

\* The entries of data the loop gets to: those in front of the first one
\* that raises.
Processed(data) ==
    { i \in 1..Len(data) : \A j \in 1..i : ~Raises(data[j]) }

\* C14: whatever list of characters is proposed next, every stored character
\* keeps its place and key; a stored gender male or female stays as it is;
\* a stored not_clear becomes the gender of an accepted proposal for the
\* same original that names male or female.
C14_GenderMerge ==
    \A data \in Batches(CharacterEntries) :
        LET r == update_characters(store.context_mode, store.characters, data)
        IN  \A k \in 1..Len(store.characters) :
              LET old == store.characters[k]
              IN  /\ k <= Len(r.coll)
                  /\ r.coll[k].original = old.original
                  /\ old.sub \in {"male", "female"} => r.coll[k].sub = old.sub
                  /\ (/\ old.sub = "not_clear"
                      /\ Len(data) = 1
                      /\ Accepted(data[1])
                      /\ strip(data[1].original) = old.original
                      /\ data[1].sub # Missing /\ data[1].sub # NotAString
                      /\ lower(strip(data[1].sub)) \in {"male", "female"})
                     => r.coll[k].sub = lower(strip(data[1].sub))

\* The character loaded as not_clear is stored as female after two calls,
\* the second of which did not change it.
C14_Witness ==
    /\ store.character_file.coll # << >>
    /\ store.calls = 2
    /\ store.last.op = "update_characters"
    /\ Len(store.characters) = 1
    /\ store.characters[1].original = "A"
    /\ store.characters[1].sub = "female"
    /\ store.character_file.coll = store.characters

\* C15: whatever list of terms is proposed next, every stored term keeps its
\* place and key; a stored specific category stays as it is; a stored other
\* becomes the category of an accepted proposal for the same original that
\* names a specific category.
C15_CategoryMerge ==
    \A data \in Batches(TermEntries) :
        LET r == update_terms(store.context_mode, store.terms, data)
        IN  \A k \in 1..Len(store.terms) :
              LET old == store.terms[k]
              IN  /\ k <= Len(r.coll)
                  /\ r.coll[k].original = old.original
                  /\ old.sub # "other" => r.coll[k].sub = old.sub
                  /\ (/\ old.sub = "other"
                      /\ Len(data) = 1
                      /\ Accepted(data[1])
                      /\ strip(data[1].original) = old.original
                      /\ data[1].sub # Missing /\ data[1].sub # NotAString
                      /\ lower(strip(data[1].sub)) \in VALID_TERM_CATEGORIES \ {"other"})
                     => r.coll[k].sub = lower(strip(data[1].sub))

\* A term stored with the category other was upgraded to spell.
C15_Witness ==
    /\ store.calls = 2
    /\ store.last.op = "update_terms"
    /\ store.terms_file.coll =
          << [original |-> "A", translated |-> "C", sub |-> "spell"] >>
    /\ store.terms = store.terms_file.coll

\* C16: whatever list of places is proposed next, every stored place keeps
\* its place, key and translation; a place that is new after the call has
\* the translation of the first accepted proposal for its original; and a
\* list that proposes stored originals only changes nothing and saves
\* nothing.
C16_PlaceNeverOverwritten ==
    \A data \in Batches(PlaceEntries) :
        LET r == update_places(store.context_mode, store.places, data)
        IN  /\ \A k \in 1..Len(store.places) :
                  k <= Len(r.coll) /\ r.coll[k] = store.places[k]
            /\ \A k \in (Len(store.places) + 1)..Len(r.coll) :
                  \E i \in Processed(data) :
                     /\ Accepted(data[i])
                     /\ strip(data[i].original) = r.coll[k].original
                     /\ strip(data[i].translated) = r.coll[k].translated
                     /\ \A j \in 1..(i - 1) :
                           Accepted(data[j]) =>
                              strip(data[j].original) # r.coll[k].original
            /\ \A k \in 1..Len(r.coll), l \in 1..Len(r.coll) :
                  r.coll[k].original = r.coll[l].original => k = l
            /\ (\A i \in 1..Len(data) :
                    Accepted(data[i]) =>
                       IndexOf(store.places, strip(data[i].original)) # 0)
               => r.coll = store.places /\ ~r.touched

\* A stored place was proposed again with another translation: it kept the
\* first one and nothing was saved.
C16_Witness ==
    /\ store.calls = 2
    /\ store.last = [op |-> "update_places", raised |-> FALSE, io |-> "none"]
    /\ store.places = << [original |-> "A", translated |-> "B"] >>
    /\ store.place_file.coll = store.places

\* C17: whatever list is proposed next, every stored character has a valid
\* gender and every stored term a valid category, and a proposal with an
\* original and a translation is stored, whatever its gender or category is.
C17_EnumFallback ==
    /\ \A data \in Batches(CharacterEntries) :
          LET r == update_characters(store.context_mode, store.characters, data)
          IN  /\ \A k \in 1..Len(r.coll) : r.coll[k].sub \in VALID_GENDERS
              /\ \A i \in 1..Len(data) :
                    (store.context_mode /\ Accepted(data[i])) =>
                       /\ ~r.raised
                       /\ IndexOf(r.coll, strip(data[i].original)) # 0
    /\ \A data \in Batches(TermEntries) :
          LET r == update_terms(store.context_mode, store.terms, data)
          IN  /\ \A k \in 1..Len(r.coll) : r.coll[k].sub \in VALID_TERM_CATEGORIES
              /\ \A i \in 1..Len(data) :
                    (store.context_mode /\ Accepted(data[i])) =>
                       /\ ~r.raised
                       /\ IndexOf(r.coll, strip(data[i].original)) # 0

\* An entry that misses original or translated, or has one of them empty
\* after trimming.
Droppable(e) ==
    \/ e.original = Missing
    \/ e.translated = Missing
    \/ e.original # NotAString /\ strip(e.original) = ""
    \/ e.translated # NotAString /\ strip(e.translated) = ""

WithoutDroppable(data) ==
    LET keep(e) == ~Droppable(e) IN SelectSeq(data, keep)

\* C18: whatever list is proposed next, the call does what it does on the
\* list without its droppable entries: they raise nothing, change nothing
\* and keep no other entry from being merged.
C18_DroppedSilently ==
    /\ \A data \in Batches(CharacterEntries) :
          update_characters(store.context_mode, store.characters, data)
             = update_characters(store.context_mode, store.characters,
                                 WithoutDroppable(data))
    /\ \A data \in Batches(PlaceEntries) :
          update_places(store.context_mode, store.places, data)
             = update_places(store.context_mode, store.places,
                             WithoutDroppable(data))
    /\ \A data \in Batches(TermEntries) :
          update_terms(store.context_mode, store.terms, data)
             = update_terms(store.context_mode, store.terms,
                            WithoutDroppable(data))

\* The notes as a mapping: the text stored under a key, Missing for none.
NoteOf(notes, key) ==
    IF IndexOf(notes, key) = 0 THEN Missing ELSE notes[IndexOf(notes, key)].note

NoteKeys(notes) == { notes[k].original : k \in 1..Len(notes) }

\* The actions read as the claim states them: add and update put the text
\* under the key, delete removes the key if it is there.
RECURSIVE AsClaimed(_, _)
AsClaimed(notes, data) ==
    IF data = << >> THEN notes
    ELSE LET n == Head(data)
             key == strip(n.key)
             at == IndexOf(notes, key)
             next ==
                IF n.action \in {"add", "update"}
                THEN IF at = 0
                     THEN Append(notes, [original |-> key, note |-> strip(n.note)])
                     ELSE [notes EXCEPT ![at].note = strip(n.note)]
                ELSE IF at = 0 THEN notes
                ELSE SubSeq(notes, 1, at - 1) \o SubSeq(notes, at + 1, Len(notes))
         IN  AsClaimed(next, Tail(data))

C20_WriteThrough ==
    [][store'.last.io \notin {"open failed", "dump failed"} =>
          /\ store'.characters # store.characters =>
                store'.character_file = [kind |-> "object", coll |-> store'.characters]
          /\ store'.places # store.places =>
                store'.place_file = [kind |-> "object", coll |-> store'.places]
          /\ store'.terms # store.terms =>
                store'.terms_file = [kind |-> "object", coll |-> store'.terms]
          /\ store'.notes # store.notes =>
                store'.notes_file = [kind |-> "object", coll |-> store'.notes]]_vars

\* The outcomes of a save that did not write the file.
FailedSaves == SaveOutcomes \ {"written"}

\* The texts of responses that hold complete_translation.
UsableObjects == { obj \in SUBSET Members : "ct" \in obj }

\* C21: whatever list is proposed next, a save that fails leaves in memory
\* exactly what the merge made of the collection and nothing else changed,
\* is recorded as failed, raises nothing out of the update call, and the
\* merge of a usable response raises with it exactly when it raises without
\* it, so the attempt ends in Success as it would have.
C21_SaveFailureKeepsMemory ==
    \A io \in FailedSaves :
       /\ \A data \in Batches(CharacterEntries) :
             LET r == update_characters(store.context_mode, store.characters, data)
                 a == AfterUpdateCharacters(store, data, io)
             IN  /\ Memory(a) = [Memory(store) EXCEPT !.characters = r.coll]
                 /\ a.last.raised = r.raised
                 /\ (store.context_mode /\ r.touched /\ ~r.raised) => a.last.io = io
       /\ \A data \in Batches(PlaceEntries) :
             LET r == update_places(store.context_mode, store.places, data)
                 a == AfterUpdatePlaces(store, data, io)
             IN  /\ Memory(a) = [Memory(store) EXCEPT !.places = r.coll]
                 /\ a.last.raised = r.raised
                 /\ (store.context_mode /\ r.touched /\ ~r.raised) => a.last.io = io
       /\ \A data \in Batches(TermEntries) :
             LET r == update_terms(store.context_mode, store.terms, data)
                 a == AfterUpdateTerms(store, data, io)
             IN  /\ Memory(a) = [Memory(store) EXCEPT !.terms = r.coll]
                 /\ a.last.raised = r.raised
                 /\ (store.context_mode /\ r.touched /\ ~r.raised) => a.last.io = io
       /\ \A data \in Batches(NoteActions) :
             LET a == AfterUpdateNotes(store, data, io)
             IN  /\ Memory(a) = [Memory(store) EXCEPT
                                   !.notes = update_notes(store.notes_mode, @, data)]
                 /\ ~a.last.raised
                 /\ (store.notes_mode /\ data # << >>) => a.last.io = io
       /\ \A obj \in UsableObjects :
             LET failed == MergeDeltas(store.context_mode, store.notes_mode,
                                       store, obj, io, io)
                 written == MergeDeltas(store.context_mode, store.notes_mode,
                                        store, obj, "written", "written")
             IN  /\ failed.raised = written.raised
                 /\ Memory(failed.cm) = Memory(written.cm)

\* A character was merged and the dump of the characters file failed: the
\* character is in memory, the file holds nothing that can be loaded.
C21_Witness ==
    /\ store.last = [op |-> "update_characters", raised |-> FALSE, io |-> "dump failed"]
    /\ store.characters # << >>
    /\ store.character_file.kind = "truncated"

\* A session: one worker over any context folder, one provider tried once
\* per chunk, which answers every request with a usable text that proposes
\* character A, or else with that text, with one that proposes a note, or
\* with a text that is no JSON.
SessionConfig(context_mode, notes_mode) ==
    [ use_custom |-> FALSE,
      providers |-> providers_of(SubSeq(ProviderNames, 1, 1)),
      retries_per_provider |-> 1,
      context_mode |-> context_mode,
      notes_mode |-> notes_mode,
      api_key |-> ApiKey,
      send_previous_chunks |-> FALSE ]

InitSession ==
    /\ window = NewWindow
    /\ \E context_mode \in BOOLEAN, notes_mode \in BOOLEAN,
          folder \in ContextFolders, queue \in Jobs(1, MaxChunks) :
          /\ store = StoreOver(context_mode, notes_mode, folder)
          /\ \E resp \in {{ValidFencedChars},
                          {ValidFencedChars, ValidNotesTrailing, NotJson}} :
                Started(SessionConfig(context_mode, notes_mode), resp, 1, queue)

SpecSession == InitSession /\ [][Next]_vars

\* A file that is there and cannot be loaded.
Corrupt(file) == file.kind \in {"array", "truncated", "unreadable"}

\* C22: a collection whose file is unreadable or corrupt is empty in the
\* ContextManager the worker constructs, and in a session over such a file
\* the chunks of a chapter that could be converted are translated: the
\* chapter does not end with an exception.
C22_CorruptFileDegrades ==
    /\ store.last.op = "__init__" =>
          /\ Corrupt(store.character_file) => store.characters = << >>
          /\ Corrupt(store.place_file) => store.places = << >>
          /\ Corrupt(store.terms_file) => store.terms = << >>
          /\ Corrupt(store.notes_file) => store.notes = << >>
          /\ \A w \in Workers : worker[w].context_manager = Memory(store)
    /\ (Corrupt(store.character_file) \/ Corrupt(store.notes_file)) =>
          \A k \in 1..Len(dequeued) :
             dequeued[k].job.convertible =>
                outcome[dequeued[k].job.id].status # "raised"

\* C23: every character and every term in memory has a translation and a
\* gender or category, and a member of a file that is a bare string was
\* loaded as a record with that string as its translation and the default
\* gender or category.
C23_LegacyNormalized ==
    /\ \A k \in 1..Len(store.characters) :
          /\ store.characters[k].translated # Missing
          /\ store.characters[k].sub \notin {Missing, BareString}
    /\ \A k \in 1..Len(store.terms) :
          /\ store.terms[k].translated # Missing
          /\ store.terms[k].sub \notin {Missing, BareString}
    /\ store.last.op = "__init__" =>
          /\ \A k \in 1..Len(store.character_file.coll) :
                store.character_file.coll[k].sub = BareString =>
                   store.characters[k] =
                      [store.character_file.coll[k] EXCEPT !.sub = "not_clear"]
          /\ \A k \in 1..Len(store.terms_file.coll) :
                store.terms_file.coll[k].sub = BareString =>
                   store.terms[k] =
                      [store.terms_file.coll[k] EXCEPT !.sub = "other"]

\* The keys of a collection, in the order of the collection.
Keys(coll) == [k \in 1..Len(coll) |-> coll[k].original]

UniqueKeys(coll) ==
    \A j, k \in 1..Len(coll) : coll[j].original = coll[k].original => j = k

IsPrefix(a, b) == Len(a) <= Len(b) /\ SubSeq(b, 1, Len(a)) = a

\* The prompt has one line per entry, in the order of the collection, after
\* its heading, and is empty for an empty collection.
RendersInOrder(prompt, coll) ==
    IF coll = << >> THEN prompt = << >>
    ELSE /\ Len(prompt) = Len(coll) + 1
         /\ \A k \in 1..Len(coll) :
               /\ prompt[k + 1][1] = coll[k].original
               /\ prompt[k + 1][2] = coll[k].translated

\* C24: in the characters, places and terms the original is a unique key;
\* an update call leaves every key that was stored at its position and puts
\* new keys behind them; and each prompt lists the entries in the order of
\* the collection.
C24_InsertionOrder ==
    [][ /\ UniqueKeys(store.characters) /\ UniqueKeys(store'.characters)
        /\ UniqueKeys(store.places) /\ UniqueKeys(store'.places)
        /\ UniqueKeys(store.terms) /\ UniqueKeys(store'.terms)
        /\ IsPrefix(Keys(store.characters), Keys(store'.characters))
        /\ IsPrefix(Keys(store.places), Keys(store'.places))
        /\ IsPrefix(Keys(store.terms), Keys(store'.terms))
        /\ store'.context_mode =>
              /\ RendersInOrder(get_character_prompt(store'), store'.characters)
              /\ RendersInOrder(get_place_prompt(store'), store'.places)
              /\ RendersInOrder(get_terms_prompt(store'), store'.terms) ]_vars

\* Character A, stored first, was given another translation by a later
\* entry and is still in front of character B.
C24_Witness ==
    /\ store.last.op = "update_characters"
    /\ Len(store.characters) = 2
    /\ store.characters[1].original = "A"
    /\ store.characters[1].translated = "C"
    /\ store.characters[1].sub = "male"
    /\ store.characters[2].original = "B"
    /\ get_character_prompt(store)[2] = << "A", "C", "male" >>

\* ------------------------------------------------------ chunker: calls
SplitFrame == UNCHANGED << cfg, responses, chapter_queue, worker, xhtml,
                           chapter_completed, dequeued, outcome, window, store,
                           relevance, toc >>

\* split_chapter, lines 19-25
ForLine ==
    /\ chunker.pc = "for_line"
    /\ chunker.lines # << >>
    /\ chunker' = for_line(chunker)
    /\ SplitFrame

\* split_chapter, lines 27-30
AfterLoop ==
    /\ chunker.pc = "for_line"
    /\ chunker.lines = << >>
    /\ chunker' = after_loop(chunker)
    /\ SplitFrame

NextSplit ==
    \/ ForLine
    \/ AfterLoop

\* translate_chapter, line 273: split_chapter is called on the text of a
\* chapter with the budget of the worker.
InitSplit ==
    /\ StartedWorkers(PoolConfig, {}, 0, << >>)
    /\ window = NewWindow
    /\ store = NewStore(FALSE, FALSE)
    /\ \E chapter \in Texts, max_tokens \in 1..MaxBudget :
          chunker = NewSplit(chapter, max_tokens)
    /\ relevance = NoFilter
    /\ toc = NoBatch

SpecSplit == InitSplit /\ [][NextSplit]_vars

IsWhite(text) == \A k \in 1..Len(text) : text[k] # "w"
HasLineBreak(text) == \E k \in 1..Len(text) : text[k] = "nl"

\* The text is the chunks in their order, with blanks and line breaks
\* before, between and after them, and at least one line break between two
\* chunks that are not empty.
RECURSIVE Covers(_, _, _)
Covers(text, chunks, begun) ==
    IF chunks = << >> THEN IsWhite(text)
    ELSE LET chunk == Head(chunks)
         IN  \E k \in 0..(Len(text) - Len(chunk)) :
                /\ IsWhite(SubSeq(text, 1, k))
                /\ (begun /\ chunk # << >>) => HasLineBreak(SubSeq(text, 1, k))
                /\ SubSeq(text, k + 1, k + Len(chunk)) = chunk
                /\ Covers(SubSeq(text, k + Len(chunk) + 1, Len(text)),
                          Tail(chunks), begun \/ chunk # << >>)

RECURSIVE Flat(_)
Flat(groups) == IF groups = << >> THEN << >> ELSE Head(groups) \o Flat(Tail(groups))

RECURSIVE Joined(_)
Joined(lines) ==
    IF lines = << >> THEN << >> ELSE Head(lines) \o << "nl" >> \o Joined(Tail(lines))

\* C25: when split_chapter has returned, the lines of the text are, each
\* once and in their order, the lines that were put into the chunks; every
\* chunk is its lines without the blanks and line breaks at its ends; and
\* the text is the chunks in their order with only blanks and line breaks
\* around them.
C25_ChunksReconstructText ==
    chunker.pc = "returned" =>
        /\ Flat(chunker.members) = split(chunker.chapter)
        /\ Len(chunker.members) = Len(chunker.chunks)
        /\ \A k \in 1..Len(chunker.chunks) :
              chunker.chunks[k] = text_strip(Joined(chunker.members[k]))
        /\ Covers(chunker.chapter, chunker.chunks, FALSE)

\* A text of three lines with the second one blank was split into two
\* chunks that are not empty.
C25_Witness ==
    /\ chunker.pc = "returned"
    /\ Len(split(chunker.chapter)) = 3
    /\ Len(chunker.chunks) = 2
    /\ chunker.chunks[1] # << >>
    /\ chunker.chunks[2] # << >>
    /\ chunker.chapter # chunker.chunks[1] \o << "nl" >> \o chunker.chunks[2]

\* C26: when split_chapter has returned, a chunk has more tokens than the
\* budget only if it is one line of the text that has more tokens than the
\* budget by itself, and a line with more tokens than the budget is the
\* only line of its chunk.
C26_ChunksWithinBudget ==
    chunker.pc = "returned" =>
        \A k \in 1..Len(chunker.chunks) :
            /\ num_tokens_from_string(chunker.chunks[k]) > chunker.max_tokens =>
                  /\ Len(chunker.members[k]) = 1
                  /\ num_tokens_from_string(chunker.members[k][1]) > chunker.max_tokens
                  /\ chunker.chunks[k] = text_strip(chunker.members[k][1])
            /\ \A j \in 1..Len(chunker.members[k]) :
                  num_tokens_from_string(chunker.members[k][j]) > chunker.max_tokens =>
                     Len(chunker.members[k]) = 1

\* One chunk is a line over the budget, and another chunk is not empty and
\* within the budget.
C26_Witness ==
    /\ chunker.pc = "returned"
    /\ \E k, j \in 1..Len(chunker.chunks) :
          /\ num_tokens_from_string(chunker.chunks[k]) > chunker.max_tokens
          /\ chunker.chunks[j] # << >>
          /\ num_tokens_from_string(chunker.chunks[j]) <= chunker.max_tokens

\* C27: split_chapter returns no chunk for the empty text.
C27_EmptyTextNoChunks ==
    (chunker.pc = "returned" /\ chunker.chapter = << >>) => chunker.chunks = << >>

\* ---------------------------------------------- relevance filter: calls
FilterFrame == UNCHANGED << cfg, responses, chapter_queue, worker, xhtml,
                            chapter_completed, dequeued, outcome, window, store,
                            chunker, toc >>

\* The loop of filter_characters (lines 116-128), filter_places (145-154)
\* and filter_terms (171-183)
ForEntry ==
    /\ relevance.pc = "for_entry"
    /\ relevance.entries # << >>
    /\ relevance' = for_entry(relevance)
    /\ FilterFrame

\* The return of a filter (lines 131, 157, 186)
FilterReturn ==
    /\ relevance.pc = "for_entry"
    /\ relevance.entries = << >>
    /\ relevance' = [relevance EXCEPT !.pc = "returned"]
    /\ FilterFrame

NextFilter ==
    \/ ForEntry
    \/ FilterReturn

\* The entries of a glossary: a katakana name of three characters, a name
\* of four characters, a Latin term and a name of two characters, each with
\* its translation; a name of four kana, a Latin term of four letters and a
\* name of seven kana, not translated yet.
GlossaryEntries ==
    { [original |-> << "KA", "KI", "KA" >>, translated |-> << "L", "l" >>],
      [original |-> << "KA", "KI", "kanji", "kanji" >>, translated |-> << "L" >>],
      [original |-> << "L", "l" >>, translated |-> << "kanji" >>],
      [original |-> << "ka", "kanji" >>, translated |-> << "l" >>],
      [original |-> << "KA", "KA", "KA", "ka" >>, translated |-> << >>],
      [original |-> << "l", "L", "l", "l" >>, translated |-> << >>],
      [original |-> << "KA", "ka", "KA", "KA", "ka", "ka", "KA" >>,
       translated |-> << >>] }

\* The collections of at most MaxGlossary entries.
Glossaries ==
    { g \in UNION { [1..n -> GlossaryEntries] : n \in 0..MaxGlossary } :
         \A j, k \in 1..Len(g) : g[j].original = g[k].original => j = k }

\* A filter of ContextFilter is called on a chunk and a collection.
InitFilter ==
    /\ StartedWorkers(PoolConfig, {}, 0, << >>)
    /\ window = NewWindow
    /\ store = NewStore(FALSE, FALSE)
    /\ chunker = NoSplit
    /\ toc = NoBatch
    /\ \E kind \in FilterKinds, chunk \in ChunkTexts \cup KanaChunks,
          collection \in Glossaries :
          relevance = NewFilter(kind, chunk, collection)

SpecFilter == InitFilter /\ [][NextFilter]_vars

\* The entries the loop of the filter has visited.
Visited(f) == SubSeq(f.collection, 1, Len(f.collection) - Len(f.entries))

\* C28: an entry the filter has visited whose original is in the chunk as
\* it stands is in the relevant subset, and the trace holds one record for
\* it, with the original as the text found and the kind "exact".
C28_VerbatimIsExact ==
    \A k \in 1..Len(Visited(relevance)) :
        LET e == relevance.collection[k]
        IN  Contains(relevance.chunk, e.original) =>
               /\ \E j \in 1..Len(relevance.relevant) : relevance.relevant[j] = e
               /\ \E j \in 1..Len(relevance.match_details) :
                     relevance.match_details[j] =
                        << e.original, e.translated, e.original, "exact" >>
               /\ \A j \in 1..Len(relevance.match_details) :
                     relevance.match_details[j][1] = e.original =>
                        relevance.match_details[j][4] = "exact"

\* The filter of the characters has returned; the chunk holds the original
\* of the second of two entries, and the first one is not relevant.
C28_Witness ==
    /\ relevance.pc = "returned"
    /\ relevance.kind = "characters"
    /\ Len(relevance.collection) = 2
    /\ Contains(relevance.chunk, relevance.collection[2].original)
    /\ Len(relevance.collection[2].original) >= 3
    /\ relevance.relevant = << relevance.collection[2] >>
    /\ relevance.match_details[1][4] = "exact"

\* C29: with context mode on, translate_chunk called on a chunk by a worker
\* that was not stopped puts the prompts of the whole glossary (every
\* character, place and term of the ContextManager) in front of the chunk
\* and enters the provider rotation.
C29_FullGlossaryInRequest ==
    [][ \A w \in Workers :
          ( /\ cfg.context_mode
            /\ worker[w].pc = "for_chunk"
            /\ worker[w].i <= worker[w].job.chunks
            /\ worker[w].is_running
            /\ worker'[w].pc # "for_chunk" ) =>
          ( /\ worker'[w].pc = "for_provider"
            /\ worker'[w].base_messages =
                  base_messages_of(TRUE, cfg.notes_mode, worker[w].context_manager) )
      ]_vars

\* C30: when a chapter of two chunks is over for a worker with context mode
\* on that was not stopped, and every response of the provider proposed
\* character A, the chapter did not end with an exception, and if it was
\* completed, A is in the glossary the worker holds and in the store: the
\* response for the first chunk put it there before the second request.
C30_ProposedCharacterStored ==
    \A k \in 1..Len(dequeued) :
        LET job == dequeued[k].job
            wk == worker[dequeued[k].worker]
        IN  ( /\ cfg.context_mode
              /\ responses = {ValidFencedChars}
              /\ wk.is_running
              /\ job.chunks = 2
              /\ job.convertible
              /\ outcome[job.id].status # "none" ) =>
            ( /\ outcome[job.id].status # "raised"
              /\ outcome[job.id].status = "completed" =>
                    /\ IndexOf(wk.context_manager.characters, "A") # 0
                    /\ IndexOf(store.characters, "A") # 0 )

\* ------------------------------------------------------------ API key
\* A window in which the user edits the key entry and starts translations,
\* and a worker constructed with any text as its key, over one chapter.
InitKeys ==
    /\ window = NewWindow
    /\ \E api_key \in ApiKeyTexts, context_mode \in BOOLEAN,
          queue \in Jobs(1, MaxChunks) :
          /\ store = NewStore(context_mode, FALSE)
          /\ Started([SessionConfig(context_mode, FALSE) EXCEPT !.api_key = api_key],
                     {ValidPlain, NotJson}, 1, queue)

NextKeys ==
    \/ Next
    \/ EditApiKey
    \/ StartTranslation

SpecKeys == InitKeys /\ [][NextKeys]_vars

\* C31: without an API key, start_translation constructs no worker; and a
\* worker that has none starts no provider attempt: translate_chunk
\* returns None for the chunk it is called on, and no chapter is reported
\* as completed.
C31_NoKeyNoAttempt ==
    [][ /\ strip(window.api_key_entry) = "" =>
              /\ window'.workers = window.workers
              /\ window'.worker_count = window.worker_count
        /\ cfg.api_key = "" =>
              /\ chapter_completed' = << >>
              /\ \A w \in Workers :
                    /\ worker'[w].attempts = << >>
                    /\ worker'[w].pc \notin RotationPcs
                    /\ ( /\ worker[w].pc = "for_chunk"
                         /\ worker[w].is_running
                         /\ worker[w].i <= worker[w].job.chunks
                         /\ worker'[w].pc # "for_chunk" ) =>
                       ( /\ worker'[w].pc = "translated"
                         /\ worker'[w].translated_chunk = None ) ]_vars

\* The key entry is blank and no worker was started from the window; a
\* worker without a key has been given None for the first chunk of a
\* chapter of two.
C31_Witness ==
    /\ window.api_key_entry = " "
    /\ window.workers = {}
    /\ cfg.api_key = ""
    /\ \E w \in Workers :
          /\ worker[w].pc = "translated"
          /\ worker[w].job.chunks = 2
          /\ worker[w].i = 1
          /\ worker[w].translated_chunk = None
          /\ worker[w].attempts = << >>

\* ------------------------------------------------ previous chunks
\* One worker over two chapters, with and without send_previous_chunks.
InitParts ==
    /\ window = NewWindow
    /\ store = NewStore(FALSE, FALSE)
    /\ \E send_previous_chunks \in BOOLEAN, queue \in Jobs(2, MaxChunks) :
          Started([SessionConfig(FALSE, FALSE) EXCEPT
                      !.send_previous_chunks = send_previous_chunks],
                  {ValidPlain, NotJson}, 1, queue)

SpecParts == InitParts /\ [][Next]_vars

C33_CompletedHasFile ==
    \A k \in 1..Len(chapter_completed) : xhtml[chapter_completed[k]] # NoFile

\* ------------------------------------------------ stop and the queue
\* C34: a worker on which stop() was called takes no job from the queue.
C34_NoDequeueAfterStop ==
    [][\A w \in Workers :
          ( /\ ~worker[w].is_running
            /\ Len(dequeued') > Len(dequeued) ) =>
              dequeued'[Len(dequeued')].worker # w]_vars

\* ------------------------------------------------ partial matches
\* The term is in the chunk as it stands or in normalized form.
ExactOrNormalized(t, f) ==
    \/ Contains(f.chunk, t)
    \/ Contains(f.chunk_normalized, normalize_japanese(t))

\* The records of the trace for an entry.
DetailsOf(e, f) ==
    { f.match_details[j] : j \in { i \in 1..Len(f.match_details) :
                                      f.match_details[i][1] = e.original } }

\* The least number of characters of a partial string of a term:
\* max(2, ceil(0.7 * len)).
LeastPartial(t) ==
    LET c == CHOOSE m \in 0..Len(t) : 10 * m >= 7 * Len(t) /\ 10 * (m - 1) < 7 * Len(t)
    IN  IF c >= 2 THEN c ELSE 2

\* The contiguous parts of a term, as << start, length >>, that are shorter
\* than the term and not shorter than LeastPartial.
PartsOf(t) ==
    { c \in (0..Len(t)) \X (1..Len(t)) :
         /\ c[2] >= LeastPartial(t)
         /\ c[2] <= Len(t) - 1
         /\ c[1] + c[2] <= Len(t) }

PartText(t, c) == SubSeq(t, c[1] + 1, c[1] + c[2])

PartHits(t, c, f) ==
    \/ Contains(f.chunk, PartText(t, c))
    \/ Contains(f.chunk_normalized, normalize_japanese(PartText(t, c)))

\* Longest first, then leftmost first.
TriedBefore(c, d) == c[2] > d[2] \/ (c[2] = d[2] /\ c[1] < d[1])

\* The partial match the rule gives for a term: None, or the first part that
\* hits, with the kind "partial" when it is in the chunk as it stands.
PartialByRule(t, f) ==
    IF has_cjk(t) /\ Len(t) >= 2 /\ \E c \in PartsOf(t) : PartHits(t, c, f)
    THEN LET c == CHOOSE c \in PartsOf(t) :
                      /\ PartHits(t, c, f)
                      /\ \A d \in PartsOf(t) : PartHits(t, d, f) => d = c \/ TriedBefore(c, d)
         IN  << PartText(t, c),
                IF Contains(f.chunk, PartText(t, c)) THEN "partial" ELSE "partial_norm" >>
    ELSE None

\* C35: for an entry the filter has visited, (1) an original that is not in
\* the chunk, neither as it stands nor normalized, and has a partial match by
\* the rule (CJK term of two characters or more; parts from len-1 down to
\* max(2, ceil(0.7 len)), longest first, leftmost first, direct before
\* normalized) is recorded with that part and kind; (2) every record of a
\* partial kind is the partial match by the rule of the original or of the
\* translation; (3) an entry without CJK characters is recorded as exact or
\* normalized only.
C35_PartialMatching ==
    \A k \in 1..Len(Visited(relevance)) :
        LET e == relevance.collection[k]
        IN  /\ ( /\ ~ExactOrNormalized(e.original, relevance)
                 /\ PartialByRule(e.original, relevance) # None ) =>
                    DetailsOf(e, relevance) =
                       { << e.original, e.translated,
                            PartialByRule(e.original, relevance)[1],
                            PartialByRule(e.original, relevance)[2] >> }
            /\ \A d \in DetailsOf(e, relevance) :
                   d[4] \in {"partial", "partial_norm"} =>
                      \E t \in {e.original, e.translated} :
                         /\ ~ExactOrNormalized(t, relevance)
                         /\ << d[3], d[4] >> = PartialByRule(t, relevance)
            /\ ( ~has_cjk(e.original) /\ ~has_cjk(e.translated) ) =>
                   \A d \in DetailsOf(e, relevance) : d[4] \in {"exact", "normalized"}

\* The name of seven kana was looked up in a chunk that holds one of its
\* parts of six characters, hence two of its parts of five, and the part of
\* six is the one recorded.
C35_Witness ==
    /\ relevance.pc = "returned"
    /\ Len(relevance.chunk) = 6
    /\ Len(relevance.match_details) = 1
    /\ Len(relevance.match_details[1][1]) = 7
    /\ Len(relevance.match_details[1][3]) = 6
    /\ relevance.match_details[1][4] \in {"partial", "partial_norm"}

\* ------------------------------------------------ halves of a term
FirstHalf(t) == SubSeq(t, 1, Len(t) \div 2)
SecondHalf(t) == SubSeq(t, Len(t) \div 2 + 1, Len(t))

LooseKinds == {"name_part", "name_part_norm", "prefix", "prefix_norm"}

\* A half is in the chunk, as it stands for the kinds "name_part" and
\* "prefix", normalized for the others.
HalfHits(half, kind, f) ==
    IF kind \in {"name_part", "prefix"}
    THEN Contains(f.chunk, half)
    ELSE Contains(f.chunk_normalized, normalize_japanese(half))

\* A term that reaches the comparison of its halves.
OnlyHalvesLeft(t, f) ==
    /\ has_cjk(t)
    /\ Len(t) >= 4
    /\ ~ExactOrNormalized(t, f)
    /\ PartialByRule(t, f) = None

\* C36: for an entry the filter has visited: a place is never recorded with
\* a kind of the half-length comparison; a character is recorded with
\* "name_part" or "name_part_norm" only, for the first or the second half (two
\* characters or more) of a term of four characters or more that is in the
\* chunk, and it is recorded when a half of its original is in the chunk; a
\* term is recorded with "prefix" or "prefix_norm" only, for the first half,
\* which has three characters or more when it is found in normalized form,
\* and it is recorded when the first half of its original is found so, and
\* not when only the second half is.
C36_HalvesPerCollection ==
    \A k \in 1..Len(Visited(relevance)) :
        LET e == relevance.collection[k]
            f == relevance
            o == e.original
        IN  /\ \A d \in DetailsOf(e, f) :
                   d[4] \in LooseKinds =>
                      /\ f.kind # "places"
                      /\ f.kind = "characters" => d[4] \in {"name_part", "name_part_norm"}
                      /\ f.kind = "terms" => d[4] \in {"prefix", "prefix_norm"}
                      /\ \E t \in {e.original, e.translated} :
                            /\ Len(t) >= 4
                            /\ \/ d[3] = FirstHalf(t)
                               \/ f.kind = "characters" /\ d[3] = SecondHalf(t)
                            /\ Len(d[3]) >= 2
                            /\ d[4] = "prefix_norm" => Len(d[3]) >= 3
                            /\ HalfHits(d[3], d[4], f)
            /\ ( /\ OnlyHalvesLeft(o, f)
                 /\ f.kind = "characters"
                 /\ \E h \in {FirstHalf(o), SecondHalf(o)}, kind \in {"name_part", "name_part_norm"} :
                        HalfHits(h, kind, f) ) =>
                   \E d \in DetailsOf(e, f) :
                      /\ d[4] \in {"name_part", "name_part_norm"}
                      /\ d[3] \in {FirstHalf(o), SecondHalf(o)}
            /\ ( /\ OnlyHalvesLeft(o, f)
                 /\ f.kind = "terms"
                 /\ \/ HalfHits(FirstHalf(o), "prefix", f)
                    \/ Len(FirstHalf(o)) >= 3 /\ HalfHits(FirstHalf(o), "prefix_norm", f) ) =>
                   \E d \in DetailsOf(e, f) :
                      /\ d[4] \in {"prefix", "prefix_norm"}
                      /\ d[3] = FirstHalf(o)
            /\ ( /\ OnlyHalvesLeft(o, f)
                 /\ e.translated = << >>
                 /\ \/ f.kind = "places"
                    \/ /\ f.kind = "terms"
                       /\ ~HalfHits(FirstHalf(o), "prefix", f)
                       /\ ~( Len(FirstHalf(o)) >= 3 /\ HalfHits(FirstHalf(o), "prefix_norm", f) ) ) =>
                   DetailsOf(e, f) = {}

\* The filter of the characters has recorded the second half of a name of
\* four characters.
C36_Witness ==
    /\ relevance.pc = "returned"
    /\ relevance.kind = "characters"
    /\ Len(relevance.match_details) = 1
    /\ Len(relevance.match_details[1][1]) = 4
    /\ relevance.match_details[1][3] = SecondHalf(relevance.match_details[1][1])
    /\ relevance.match_details[1][4] = "name_part"

\* ------------------------------------------------ last writer wins
\* The last entry of data the merge loop takes up for a key, or 0.
LastFor(data, key) ==
    LET hits == { i \in Processed(data) :
                     Accepted(data[i]) /\ strip(data[i].original) = key }
    IN  IF hits = {} THEN 0 ELSE CHOOSE i \in hits : \A j \in hits : j <= i

\* The translation of a stored entry after data was merged, when the last
\* writer wins.
LastWriter(old, data) ==
    IF LastFor(data, old.original) = 0 THEN old.translated
    ELSE strip(data[LastFor(data, old.original)].translated)

\* The gender or category of a stored entry after one accepted proposal:
\* the proposed one when the stored one is the default and the proposed one
\* is a specific valid value, the stored one otherwise.
SubByRule(old, e, valid, dflt) ==
    IF /\ old.sub = dflt
       /\ e.sub # Missing
       /\ lower(strip(e.sub)) \in valid \ {dflt}
    THEN lower(strip(e.sub))
    ELSE old.sub

\* C37: with context mode on, whatever list is proposed next, a stored
\* character or term has afterwards the translation of the last accepted
\* proposal for its key (its own when there is none), a stored place keeps
\* its translation, and after one accepted proposal for its key a stored
\* character or term has the gender or category its merge rule gives.
C37_LastWriterWins ==
    store.context_mode =>
      /\ \A data \in Batches(CharacterEntries) :
            LET r == update_characters(store.context_mode, store.characters, data)
            IN  \A k \in 1..Len(store.characters) :
                  /\ r.coll[k].translated = LastWriter(store.characters[k], data)
                  /\ ( Len(data) = 1 /\ LastFor(data, store.characters[k].original) = 1 ) =>
                        r.coll[k].sub = SubByRule(store.characters[k], data[1],
                                                  VALID_GENDERS, "not_clear")
      /\ \A data \in Batches(TermEntries) :
            LET r == update_terms(store.context_mode, store.terms, data)
            IN  \A k \in 1..Len(store.terms) :
                  /\ r.coll[k].translated = LastWriter(store.terms[k], data)
                  /\ ( Len(data) = 1 /\ LastFor(data, store.terms[k].original) = 1 ) =>
                        r.coll[k].sub = SubByRule(store.terms[k], data[1],
                                                  VALID_TERM_CATEGORIES, "other")
      /\ \A data \in Batches(PlaceEntries) :
            LET r == update_places(store.context_mode, store.places, data)
            IN  \A k \in 1..Len(store.places) :
                  r.coll[k].translated = store.places[k].translated

\* The character A, stored as B and male, was proposed again as C and
\* female: it is stored as C and male, in memory and in the file.
C37_Witness ==
    /\ store.context_mode
    /\ store.calls = 2
    /\ store.last = [op |-> "update_characters", raised |-> FALSE, io |-> "written"]
    /\ store.characters = << [original |-> "A", translated |-> "C", sub |-> "male"] >>
    /\ store.character_file.coll = store.characters

\* ------------------------------------------------ no rollback
\* One worker with notes mode on over one chapter; the provider answers with
\* a note to add, with text that is no JSON, or with a list of notes whose
\* second entry is malformed.
InitRollback ==
    /\ window = NewWindow
    /\ store = NewStore(FALSE, TRUE)
    /\ \E queue \in Jobs(1, MaxChunks),
          resp \in {{ValidNotesTrailing, NotJson},
                    {ValidNotesTrailing, NotJson, ValidDeleteBadNotes}} :
          Started(SessionConfig(FALSE, TRUE), resp, 1, queue)

SpecRollback == InitRollback /\ [][Next]_vars

Elems(seq) == { seq[k] : k \in 1..Len(seq) }

\* A rotation returns a translation in this step.
ChunkSucceeds ==
    \E w \in Workers :
        /\ worker[w].pc = "parse"
        /\ worker'[w].pc = "translated"
        /\ worker'[w].translated_chunk # None

\* C38: a step in which no chunk succeeds (a failed attempt, the end of a
\* failed chunk or chapter, stop) leaves every entry of the store where it
\* is, in memory and in the files.
C38_MergedEntriesRemain ==
    [][~ChunkSucceeds =>
         /\ Elems(store.characters) \subseteq Elems(store'.characters)
         /\ Elems(store.places) \subseteq Elems(store'.places)
         /\ Elems(store.terms) \subseteq Elems(store'.terms)
         /\ Elems(store.notes) \subseteq Elems(store'.notes)
         /\ Elems(store.character_file.coll) \subseteq Elems(store'.character_file.coll)
         /\ Elems(store.place_file.coll) \subseteq Elems(store'.place_file.coll)
         /\ Elems(store.terms_file.coll) \subseteq Elems(store'.terms_file.coll)
         /\ Elems(store.notes_file.coll) \subseteq Elems(store'.notes_file.coll)]_vars

\* ------------------------------------------------ chapter selection
\* The chapter of a document is named by its place in it.
Documents == { [k \in 1..n |-> k] : n \in 0..MaxChapters }

EntryTexts == { Numeral(k) : k \in (0 - 1)..(MaxChapters + 1) } \cup {NotANumber}

CsvParts ==
    { Single(k) : k \in (0 - 1)..(MaxChapters + 1) }
    \cup { FromTo(a, b) : a \in 0..(MaxChapters + 1), b \in 0..(MaxChapters + 1) }

CsvTexts == UNION { [1..n -> CsvParts] : n \in 1..MaxParts }

\* The window with a document loaded, a key entered and the chapter
\* selection typed in: a range, or the CSV entry.
InitSelect ==
    /\ NoTranslation_Running
    /\ store = NewStore(FALSE, FALSE)
    /\ \E chapters \in Documents :
          \/ \E s \in EntryTexts, e \in EntryTexts :
                window = [NewWindow EXCEPT !.api_key_entry = ApiKey,
                                           !.chapters = chapters,
                                           !.start_chapter_entry = s,
                                           !.end_chapter_entry = e]
          \/ \E csv \in CsvTexts :
                window = [NewWindow EXCEPT !.api_key_entry = ApiKey,
                                           !.chapters = chapters,
                                           !.range_radio = FALSE,
                                           !.csv_entry = csv]

\* start_translation, lines 1112-1114: no document loaded
StartWithoutDocument ==
    /\ window.chapters = << >>
    /\ window' = [window EXCEPT !.warning = "No EPUB file loaded!"]
    /\ Frame /\ UNCHANGED store

\* start_translation, lines 1112-1275, with a document and a key: the
\* selection is rejected with a warning, or the queue is filled and the
\* workers are constructed and started.
StartWithSelection ==
    /\ window.chapters # << >>
    /\ HasApiKey(window.api_key_entry)
    /\ window.worker_count + window.concurrency_spin <= MaxStarted
    /\ LET selection == IF window.range_radio
                        THEN select_range(window.chapters, window.start_chapter_entry,
                                          window.end_chapter_entry)
                        ELSE select_csv(window.chapters, window.csv_entry)
       IN  IF selection.warning # "none"
           THEN /\ window' = [window EXCEPT !.warning = selection.warning]
                /\ UNCHANGED chapter_queue
           ELSE /\ window' = [WithWorkers(window) EXCEPT !.warning = "none"]
                /\ chapter_queue' = queue_of(selection)
    /\ UNCHANGED << cfg, responses, worker, xhtml, chapter_completed, dequeued,
                    outcome, chunker, relevance, store, toc >>

NextSelect ==
    \/ StartWithoutDocument
    \/ StartWithSelection

SpecSelect == InitSelect /\ [][NextSelect]_vars

\* The numbers a selection names, when it names numbers.
Named ==
    IF window.range_radio
    THEN IF window.start_chapter_entry.digits /\ window.end_chapter_entry.digits
         THEN { k \in (0 - 1)..(MaxChapters + 1) :
                   /\ window.start_chapter_entry.value <= k
                   /\ k <= window.end_chapter_entry.value }
         ELSE {0}
    ELSE IF \A k \in 1..Len(window.csv_entry) : window.csv_entry[k].kind # "junk"
         THEN { csv_numbers(window.csv_entry)[k] : k \in 1..Len(csv_numbers(window.csv_entry)) }
         ELSE {0}

\* C39: every job on the queue pairs a number n of 1..number of chapters
\* with the n-th chapter of the document, and when workers were started the
\* selection names such numbers only.
C39_QueuePairsChapters ==
    /\ \A k \in 1..Len(chapter_queue) :
          /\ chapter_queue[k].chapter_number \in 1..Len(window.chapters)
          /\ chapter_queue[k].chapter = window.chapters[chapter_queue[k].chapter_number]
    /\ window.worker_count > 0 => Named \subseteq 1..Len(window.chapters)

\* ------------------------------------------------ TOC rotation
TocFrame == UNCHANGED << cfg, responses, chapter_queue, worker, xhtml,
                         chapter_completed, dequeued, outcome, window, store,
                         chunker, relevance >>

\* translate_batch: the head of the while loop
TocWhile ==
    /\ toc.pc = "while"
    /\ toc' = toc_while(toc)
    /\ TocFrame

\* translate_batch: one attempt
TocAttempt ==
    /\ toc.pc = "attempt"
    /\ \E how \in TocOutcomes :
          /\ how = "stopped" => ~toc.is_running
          /\ toc' = toc_attempt(toc, how)
    /\ TocFrame

\* TocTranslationWorker.stop, lines 47-49
TocStop ==
    /\ toc.pc \in {"while", "attempt"}
    /\ toc.is_running
    /\ toc' = [toc EXCEPT !.is_running = FALSE]
    /\ TocFrame

NextToc ==
    \/ Next
    \/ TocWhile
    \/ TocAttempt
    \/ TocStop

\* The provider lists the window hands to both constructors: none with a
\* custom endpoint (line 1138); the selected ones otherwise, which are none
\* when the configuration holds an empty list (lines 1151-1154).
SelectedLists(use_custom) ==
    { SubSeq(ProviderNames, 1, n) : n \in 0..(IF use_custom THEN 0 ELSE MaxProviders) }

\* A translation worker over one chapter of one chunk, and a TOC worker
\* constructed with the same provider list and the same number of retries,
\* in a call of translate_batch.
InitToc ==
    /\ window = NewWindow
    /\ store = NewStore(FALSE, FALSE)
    /\ \E use_custom \in BOOLEAN, retries_per_provider \in 1..MaxRetries,
          queue \in Jobs(1, 1) :
          \E providers_list \in SelectedLists(use_custom) :
             /\ StartedWorkers([PoolConfig EXCEPT
                                   !.use_custom = use_custom,
                                   !.providers = providers_of(providers_list),
                                   !.retries_per_provider = retries_per_provider],
                               {ValidPlain, NotJson}, 1, queue)
             /\ chunker = NoSplit
             /\ relevance = NoFilter
             /\ toc = NewBatch(ApiKey, providers_list, retries_per_provider)

SpecToc == InitToc /\ [][NextToc]_vars

\* translate_batch gave up: every attempt failed and it was not stopped.
TocExhausted == toc.pc = "returned" /\ toc.result = None /\ toc.is_running

\* The chunk rotation gave up likewise.
RotationExhausted(w) ==
    worker[w].pc = "translated" /\ ~worker[w].success /\ worker[w].is_running

\* C40: the attempts of translate_batch and those of the chunk rotation of
\* a worker with the same providers and retries are the same as far as both
\* have come, an attempt that returns translations is the last one, and
\* when both have given up they have made the same attempts, providers x
\* retries of them.
C40_SameRotation ==
    \A w \in Workers :
        LET n == IF Len(toc.tried) <= Len(worker[w].attempts)
                 THEN Len(toc.tried) ELSE Len(worker[w].attempts)
        IN  /\ worker[w].pc \in RotationPcs \cup {"translated"} =>
                  SubSeq(toc.tried, 1, n) = SubSeq(worker[w].attempts, 1, n)
            /\ TocExhausted =>
                  Len(toc.tried) = Len(toc.providers) * toc.retries_per_provider
            /\ (TocExhausted /\ RotationExhausted(w)) =>
                  toc.tried = worker[w].attempts

====
